---- MODULE Spec2Model ----
(***************************************************************************)
(* Model of terraform_generation_bench.                                    *)
(*                                                                         *)
(* Spec: TaskRunner.run (runner/run_task.py) drives terraform through      *)
(* fmt, fmt -check, init, validate, plan, apply, output, checks, a second  *)
(* plan and destroy, and fills in a result dictionary.                     *)
(*                                                                         *)
(* Each specification of this module moves the variables of one part of    *)
(* the program and leaves the variables of the other parts at rest.        *)
(***************************************************************************)
EXTENDS Integers, Sequences, FiniteSets, TLC

VARIABLES
    pc,               \* position of TaskRunner.run: "start", a step name, "returned"
    health,           \* what GET /_localstack/health answers during this run
    pass,             \* result["pass"]
    failure_category, \* result["failure_category"]
    timings,          \* result["timings"]: step name -> duration
    tool_exit_codes,  \* result["tool_exit_codes"]: step name -> exit code or None
    logs,             \* result["logs"]: step name -> path of a log file
    check_result,     \* result["check_result"]: {} while the key is absent
    success,          \* local variable success of run
    output,           \* local variable output of run
    exit_code,        \* local variable exit_code of run
    executed,         \* the commands run so far, in order (one entry per attempt)
    logFiles,         \* log files written under logs_dir
    resultFiles,      \* files written under result_dir
    outputsJson,      \* work_dir/outputs.json: "absent", "stale" or "own"
    outputsRead,      \* the outputs.json run_checks loaded: "none", "stale" or "own"
    now,              \* time.time() - start_time
    \* BenchmarkRunner.run_benchmark_suite
    spc,              \* position of the suite: "idle", "start", "pool", "done"
    max_workers_arg,  \* the argument max_workers (None when not given)
    cpu_count,        \* multiprocessing.cpu_count()
    max_workers,      \* the size of the thread pool
    jobs,             \* the list of (provider, model, task_id) jobs
    status,           \* job index -> "queued", "running" or "done"
    run_ids,          \* job index -> the second its run id was taken at
    clock,            \* datetime.now(), in seconds
    \* run_checks and the checker functions
    cpc,              \* position of run_checks
    task_id,          \* the argument task_id
    spec_exists,      \* tasks/{task_id}/spec.yaml exists
    outputs_exists,   \* work_dir/outputs.json exists
    outputs,          \* the document of outputs.json
    expected_checks,  \* spec.get('checks', {})
    pass_check,       \* the locals of the checker
    errors,
    counts,
    wiring,
    details,
    replies,             \* the answers of the control plane so far, by query
    check_json,       \* work_dir/check.json has been written
    \* TerraformGenerator.generate
    gpc,              \* position of generate
    gen_task,         \* the argument task_id
    response,         \* the response of the model client, as lines
    files,            \* the local variable files: file name -> content
    inserted,         \* the assignments files[name] = code made so far
    attempts,         \* strategy -> whether it was attempted, and with which files
    extracted,        \* the files before generate validates them
    debug_files,      \* the files written under debug/
    \* BenchmarkRunner.run_single_benchmark
    bpc,              \* position of run_single_benchmark
    bench_job,        \* the arguments provider, model and task_id
    run_id,           \* the argument run_id, then the local variable
    result,           \* the local variable result
    terraform_result, \* what runner.run() returned
    written,          \* the writes of benchmark_result.json so far
    \* run_benchmark_suite: the futures and the results list
    kpc,              \* position of run_benchmark_suite
    future_to_job,    \* future -> job
    futures,          \* future -> its state and outcome
    pool_size,        \* max_workers of the ThreadPoolExecutor
    suite_results     \* suite_results["results"]

\* the variables of TaskRunner.run
runVars == <<pc, health, pass, failure_category, timings, tool_exit_codes,
             logs, check_result, success, output, exit_code, executed,
             logFiles, resultFiles, outputsJson, outputsRead, now>>

\* the variables of the other parts of the program
\* the variables of run_benchmark_suite
suiteVars == <<spc, max_workers_arg, cpu_count, max_workers, jobs, status,
               run_ids, clock>>

\* the variables of run_checks
checkVars == <<cpc, task_id, spec_exists, outputs_exists, outputs,
               expected_checks, pass_check, errors, counts, wiring, details,
               replies, check_json>>

\* the variables of TerraformGenerator.generate
genVars == <<gpc, gen_task, response, files, inserted, attempts, extracted,
             debug_files>>

\* the variables of run_single_benchmark
singleVars == <<bpc, bench_job, run_id, result, terraform_result, written>>

\* the variables of the result collection of run_benchmark_suite
collectVars == <<kpc, future_to_job, futures, pool_size, suite_results>>

benchVars == <<singleVars, collectVars>>

otherVars == <<suiteVars, checkVars, genVars, benchVars>>

\* the variables run_checks leaves alone
notCheckVars == <<runVars, suiteVars, genVars, benchVars>>

vars == <<runVars, otherVars>>

----------------------------------------------------------------------------
(* Bounds of the model *)

\* exit codes of a command that returned are 0 .. MaxExitCode
MaxExitCode == 1

\* a suite is given 1 .. MaxTasks task ids
MaxTasks == 2

\* the clock of a suite shows the seconds 0 .. MaxSecond
MaxSecond == 1

\* the control plane reports at most MaxResources resources to a query
MaxResources == 3

\* the number of sections of a response of the model client
MaxSections == 3

\* a suite whose results are collected submits at most MaxJobs jobs
MaxJobs == 4

----------------------------------------------------------------------------
(* Values *)

\* Python's None, as an exit code (a command that returned none) and as a
\* timeout argument (not given)
None == -1

\* Python's None as a failure category
NoCategory == "None"

\* Python's None, as the argument run_id
NoRunId == "None"

FAILURE_CATEGORIES ==
    {"SYNTAX", "INIT", "VALIDATE", "PLAN", "APPLY",
     "CHECKS", "IDEMPOTENCY", "DESTROY", "LOCALSTACK"}

ExitCodes == 0 .. MaxExitCode

\* The text of a command's output is abstracted to the set of the phrases
\* the pipeline searches for that occur in it.
NoChanges == "No changes"
ZeroSummary == "0 to add, 0 to change, 0 to destroy"
ApplyComplete == "Apply complete!"
TimedOutLower == "timed out"
TimedOutUpper == "Timed Out"

Phrases == {NoChanges, ZeroSummary, ApplyComplete, TimedOutLower, TimedOutUpper}

Texts == SUBSET Phrases

\* needle in text
Contains(needle, text) == needle \in text

\* str.lower() of one phrase
LowerPhrase(p) ==
    CASE p = NoChanges -> "no changes"
      [] p = ApplyComplete -> "apply complete!"
      [] p = TimedOutUpper -> TimedOutLower
      [] OTHER -> p

\* text.lower()
Lower(text) == {LowerPhrase(p) : p \in text}

\* d[k] = v on a dictionary
Put(d, k, v) == [x \in DOMAIN d \cup {k} |-> IF x = k THEN v ELSE d[x]]

EmptyDict == [x \in {} |-> 0]

----------------------------------------------------------------------------
(* check_localstack *)

\* what the health request can do: answer with a status, or raise
HealthResponses == {"200", "503", "exception"}

check_localstack(resp) == resp = "200"

----------------------------------------------------------------------------
(* _run_terraform *)

\* What running a command can do: return with an exit code and some output,
\* exceed its timeout, or fail with another exception whose text is `text'.
Outcomes ==
    [kind : {"exit"}, rc : ExitCodes, text : Texts]
      \cup [kind : {"timeout"}, rc : {0}, text : {{}}]
      \cup [kind : {"exception"}, rc : {0}, text : Texts]

\* Lines 101-108: the timeout of a step, in seconds.
StepTimeout(step_name, timeout) ==
    IF timeout # None THEN timeout
    ELSE IF step_name \in {"apply", "apply_2", "destroy"} THEN 300
    ELSE IF step_name \in {"plan", "plan_2"} THEN 120
    ELSE 60

\* The wall-clock seconds a command takes: its whole timeout when it is cut
\* off by it, and less (here one second) when it returns or cannot be run.
Elapsed(oc, timeout) == IF oc.kind = "timeout" THEN timeout ELSE 1

\* "Terraform {step_name} timed out after {timeout}s"
TimeoutMsg(step_name, timeout) == {TimedOutLower}

\* "Exception running terraform {step_name}: {e}"
ExceptionMsg(step_name, e) == e

\* The tuple _run_terraform returns, the log file it writes and the time
\* it takes.
RunTerraform(step_name, timeout_arg, oc) ==
    LET timeout == StepTimeout(step_name, timeout_arg) IN
    CASE oc.kind = "exit" ->
           [success |-> oc.rc = 0, output |-> oc.text, exit_code |-> oc.rc,
            log_file |-> step_name, elapsed |-> Elapsed(oc, timeout)]
      [] oc.kind = "timeout" ->
           [success |-> FALSE, output |-> TimeoutMsg(step_name, timeout),
            exit_code |-> None, log_file |-> step_name,
            elapsed |-> Elapsed(oc, timeout)]
      [] OTHER ->
           [success |-> FALSE, output |-> ExceptionMsg(step_name, oc.text),
            exit_code |-> None, log_file |-> step_name,
            elapsed |-> Elapsed(oc, timeout)]

----------------------------------------------------------------------------
(* TaskRunner.run *)

\* The steps of run in program order.
StepOrder ==
    <<"fmt", "fmt_check", "init", "validate", "plan", "apply", "output",
      "checks", "plan_2", "destroy">>

Steps == {StepOrder[i] : i \in 1 .. Len(StepOrder)}

\* The variables of run, given the position of run and the answer of the
\* health request: the result dictionary as run creates it (lines 144-154).
RunInit(at, answers) ==
    /\ pc = at
    /\ health \in answers
    /\ pass = FALSE
    /\ failure_category = NoCategory
    /\ timings = EmptyDict
    /\ tool_exit_codes = EmptyDict
    /\ logs = EmptyDict
    /\ check_result = {}
    /\ success = FALSE
    /\ output = {}
    /\ exit_code = None
    /\ executed = <<>>
    /\ logFiles = {}
    /\ resultFiles = {}
    /\ outputsJson \in {"absent", "stale"}
    /\ outputsRead = "none"
    /\ now = 0

\* no suite is running
SuiteIdle ==
    /\ spc = "idle"
    /\ max_workers_arg = None
    /\ cpu_count = 1
    /\ max_workers = 1
    /\ jobs = <<>>
    /\ status = <<>>
    /\ run_ids = <<>>
    /\ clock = 0

\* run_checks is not running
ChecksIdle ==
    /\ cpc = "idle"
    /\ task_id = "task_custom"
    /\ spec_exists = FALSE
    /\ outputs_exists = FALSE
    /\ outputs = EmptyDict
    /\ expected_checks = EmptyDict
    /\ pass_check = TRUE
    /\ errors = <<>>
    /\ counts = EmptyDict
    /\ wiring = EmptyDict
    /\ details = EmptyDict
    /\ replies = EmptyDict
    /\ check_json = FALSE

\* generate is not running
GenIdle ==
    /\ gpc = "idle"
    /\ gen_task = "task_s3_basic"
    /\ response = <<>>
    /\ files = EmptyDict
    /\ inserted = <<>>
    /\ attempts = EmptyDict
    /\ extracted = EmptyDict
    /\ debug_files = {}

\* run_single_benchmark is not running
SingleIdle ==
    /\ bpc = "idle"
    /\ bench_job = [provider |-> "openai", model |-> <<"gpt", "-", "4">>,
                    task_id |-> "task_s3_basic"]
    /\ run_id = NoRunId
    /\ result = EmptyDict
    /\ terraform_result = EmptyDict
    /\ written = <<>>

\* no suite is collecting results
CollectIdle ==
    /\ kpc = "idle"
    /\ future_to_job = <<>>
    /\ futures = <<>>
    /\ pool_size = 0
    /\ suite_results = <<>>

BenchIdle == SingleIdle /\ CollectIdle

\* run is not running
RunIdle == RunInit("idle", {"200"}) /\ outputsJson = "absent"

\* the other parts of the program are not running
OthersIdle == SuiteIdle /\ ChecksIdle /\ GenIdle /\ BenchIdle

Init == RunInit("start", HealthResponses) /\ OthersIdle

\* Fail, forgetting to set the category
FailNoCategory(cat) ==
    /\ pass' = FALSE
    /\ pc' = "returned"
    /\ UNCHANGED failure_category

\* Fail, storing the name of the step that failed instead of its category
FailStepName(cat) ==
    /\ failure_category' = pc
    /\ pass' = FALSE
    /\ pc' = "returned"

\* return result with a failure category
Fail(cat) ==
    /\ failure_category' = cat
    /\ pass' = FALSE
    /\ pc' = "returned"

\* CheckLocalstack, warning about an unreachable emulator and going on
CheckLocalstackWarnOnly ==
    /\ pc = "start"
    /\ pc' = "fmt"
    /\ UNCHANGED <<otherVars, health, pass, failure_category, timings, tool_exit_codes,
                   logs, check_result, success, output, exit_code, executed,
                   logFiles, resultFiles, outputsJson, outputsRead, now>>

\* Lines 158-165: the emulator precondition.
CheckLocalstack ==
    /\ pc = "start"
    /\ IF ~check_localstack(health)
       THEN Fail("LOCALSTACK")
       ELSE pc' = "fmt" /\ UNCHANGED <<pass, failure_category>>
    /\ UNCHANGED <<otherVars, health, timings, tool_exit_codes, logs, check_result,
                   success, output, exit_code, executed, logFiles,
                   resultFiles, outputsJson, outputsRead, now>>

\* Stage, running a command that failed a second time before giving up
StageRetryOnce(step_name, cat, next, saved) ==
    \E oc \in Outcomes :
        LET r == RunTerraform(step_name, None, oc)
            d == r.elapsed
            first == \A i \in 1 .. Len(executed) : executed[i] # step_name IN
        /\ pc = step_name
        /\ executed' = Append(executed, step_name)
        /\ logFiles' = logFiles \cup {r.log_file}
        /\ success' = r.success
        /\ output' = r.output
        /\ exit_code' = r.exit_code
        /\ now' = now + d
        /\ timings' = Put(timings, step_name, d)
        /\ tool_exit_codes' = Put(tool_exit_codes, step_name, r.exit_code)
        /\ logs' = Put(logs, step_name, step_name)
        /\ resultFiles' = resultFiles \cup saved
        /\ IF ~r.success /\ first
           THEN UNCHANGED <<pc, pass, failure_category>>
           ELSE IF ~r.success
                THEN Fail(cat)
                ELSE pc' = next /\ UNCHANGED <<pass, failure_category>>
        /\ UNCHANGED <<otherVars, health, check_result, outputsJson, outputsRead>>

\* One terraform step with a timing, an exit code and a log entry: run the
\* command, record its outcome, save `saved' under result_dir, and return
\* with category cat unless it succeeded.
Stage(step_name, cat, next, saved) ==
    \E oc \in Outcomes :
        LET r == RunTerraform(step_name, None, oc)
            d == r.elapsed IN
        /\ pc = step_name
        /\ executed' = Append(executed, step_name)
        /\ logFiles' = logFiles \cup {r.log_file}
        /\ success' = r.success
        /\ output' = r.output
        /\ exit_code' = r.exit_code
        /\ now' = now + d
        /\ timings' = Put(timings, step_name, d)
        /\ tool_exit_codes' = Put(tool_exit_codes, step_name, r.exit_code)
        /\ logs' = Put(logs, step_name, step_name)
        /\ resultFiles' = resultFiles \cup saved
        /\ IF ~r.success
           THEN Fail(cat)
           ELSE pc' = next /\ UNCHANGED <<pass, failure_category>>
        /\ UNCHANGED <<otherVars, health, check_result, outputsJson, outputsRead>>

Fmt == Stage("fmt", "SYNTAX", "fmt_check", {})

FmtCheck == Stage("fmt_check", "SYNTAX", "init", {})

TfInit == Stage("init", "INIT", "validate", {})

Validate == Stage("validate", "VALIDATE", "plan", {})

Plan == Stage("plan", "PLAN", "apply", {"terraform_plan.txt"})

Apply == Stage("apply", "APPLY", "output", {"terraform_apply.txt"})

\* Lines 277-286: terraform output -json, saved as outputs.json on success;
\* run goes on to the checks whether or not it succeeded.
Output ==
    \E oc \in Outcomes :
        LET r == RunTerraform("output", None, oc)
            d == r.elapsed IN
        /\ pc = "output"
        /\ executed' = Append(executed, "output")
        /\ logFiles' = logFiles \cup {r.log_file}
        /\ success' = r.success
        /\ output' = r.output
        /\ exit_code' = r.exit_code
        /\ now' = now + d
        /\ outputsJson' = IF r.success THEN "own" ELSE outputsJson
        /\ pc' = "checks"
        /\ UNCHANGED <<otherVars, health, pass, failure_category, timings,
                       tool_exit_codes, logs, check_result, resultFiles,
                       outputsRead>>

\* What the checker run_checks dispatches to can do once outputs.json is
\* loaded: return pass = true, return pass = false, or raise.
CheckOutcomes == {"pass", "fail", "raise"}

\* the seconds run_checks takes
ChecksElapsed == 1

\* run_checks(work_dir, task_id): without outputs.json it returns a failing
\* result; otherwise it loads the file that is there and runs the checker.
run_checks(outputs_file, oc) ==
    IF outputs_file = "absent"
    THEN [raised |-> FALSE, result |-> [pass |-> FALSE], read |-> "none"]
    ELSE [raised |-> oc = "raise", result |-> [pass |-> oc = "pass"],
          read |-> outputs_file]

\* Checks, recording a failing result without returning
ChecksNoReturn ==
    \E oc \in CheckOutcomes :
        LET r == run_checks(outputsJson, oc)
            d == ChecksElapsed IN
        /\ pc = "checks"
        /\ executed' = Append(executed, "checks")
        /\ now' = now + d
        /\ outputsRead' = r.read
        /\ IF r.raised
           THEN /\ Fail("CHECKS")
                /\ UNCHANGED <<timings, check_result, resultFiles>>
           ELSE /\ timings' = Put(timings, "checks", d)
                /\ check_result' = {r.result}
                /\ resultFiles' = resultFiles \cup {"check.json"}
                /\ pc' = "plan_2"
                /\ IF ~r.result.pass
                   THEN failure_category' = "CHECKS" /\ pass' = FALSE
                   ELSE UNCHANGED <<pass, failure_category>>
        /\ UNCHANGED <<otherVars, health, tool_exit_codes, logs, success, output,
                       exit_code, logFiles, outputsJson>>

\* Checks, without the except clause: an exception of run_checks leaves run
ChecksUncaught ==
    \E oc \in CheckOutcomes :
        LET r == run_checks(outputsJson, oc)
            d == ChecksElapsed IN
        /\ pc = "checks"
        /\ executed' = Append(executed, "checks")
        /\ now' = now + d
        /\ outputsRead' = r.read
        /\ IF r.raised
           THEN /\ pc' = "raised"
                /\ UNCHANGED <<pass, failure_category, timings, check_result,
                               resultFiles>>
           ELSE /\ timings' = Put(timings, "checks", d)
                /\ check_result' = {r.result}
                /\ resultFiles' = resultFiles \cup {"check.json"}
                /\ IF ~r.result.pass
                   THEN Fail("CHECKS")
                   ELSE pc' = "plan_2" /\ UNCHANGED <<pass, failure_category>>
        /\ UNCHANGED <<otherVars, health, tool_exit_codes, logs, success, output,
                       exit_code, logFiles, outputsJson>>

\* Lines 288-308: the post-apply checks.
Checks ==
    \E oc \in CheckOutcomes :
        LET r == run_checks(outputsJson, oc)
            d == ChecksElapsed IN
        /\ pc = "checks"
        /\ executed' = Append(executed, "checks")
        /\ now' = now + d
        /\ outputsRead' = r.read
        /\ IF r.raised
           THEN /\ Fail("CHECKS")
                /\ UNCHANGED <<timings, check_result, resultFiles>>
           ELSE /\ timings' = Put(timings, "checks", d)
                /\ check_result' = {r.result}
                /\ resultFiles' = resultFiles \cup {"check.json"}
                /\ IF ~r.result.pass
                   THEN Fail("CHECKS")
                   ELSE pc' = "plan_2" /\ UNCHANGED <<pass, failure_category>>
        /\ UNCHANGED <<otherVars, health, tool_exit_codes, logs, success, output,
                       exit_code, logFiles, outputsJson>>

\* Lines 329-336: a second plan that did not succeed ends the run at once
\* only when its output mentions a timeout.
PlanTimedOut(ok, out) == ~ok /\ Contains(TimedOutLower, Lower(out))

\* Line 339: the second plan shows changes.
PlanShowsChanges(out) ==
    ~Contains(NoChanges, out) /\ ~Contains(ZeroSummary, out)

\* Line 354: the check kept from the second apply.
ApplyShowsChanges(out) ==
    ~Contains(NoChanges, out) /\ ~Contains(ApplyComplete, out)

\* Lines 310-358: the idempotency check.
Plan2 ==
    \E oc \in Outcomes :
        LET r == RunTerraform("plan_2", 120, oc)
            d == r.elapsed IN
        /\ pc = "plan_2"
        /\ executed' = Append(executed, "plan_2")
        /\ logFiles' = logFiles \cup {r.log_file}
        /\ success' = r.success
        /\ output' = r.output
        /\ exit_code' = r.exit_code
        /\ now' = now + d
        /\ IF PlanTimedOut(r.success, r.output) \/ PlanShowsChanges(r.output)
           THEN /\ timings' = Put(timings, "plan_2", d)
                /\ tool_exit_codes' = Put(tool_exit_codes, "plan_2", r.exit_code)
                /\ logs' = Put(logs, "plan_2", "plan_2")
                /\ resultFiles' = resultFiles \cup {"terraform_plan_2.txt"}
                /\ Fail("IDEMPOTENCY")
           ELSE /\ timings' = Put(Put(timings, "plan_2", d), "apply_2", d)
                /\ tool_exit_codes' =
                       Put(Put(tool_exit_codes, "plan_2", r.exit_code),
                           "apply_2", r.exit_code)
                /\ logs' = Put(Put(logs, "plan_2", "plan_2"), "apply_2", "apply_2")
                /\ resultFiles' = resultFiles \cup
                       {"terraform_plan_2.txt", "terraform_apply_2.txt"}
                /\ IF ApplyShowsChanges(r.output)
                   THEN Fail("IDEMPOTENCY")
                   ELSE pc' = "destroy" /\ UNCHANGED <<pass, failure_category>>
        /\ UNCHANGED <<otherVars, health, check_result, outputsJson, outputsRead>>

\* Destroy, treating the cleanup as best effort: its failure is ignored
DestroyBestEffort ==
    \E oc \in Outcomes :
        LET r == RunTerraform("destroy", None, oc)
            d == r.elapsed IN
        /\ pc = "destroy"
        /\ executed' = Append(executed, "destroy")
        /\ logFiles' = logFiles \cup {r.log_file}
        /\ success' = r.success
        /\ output' = r.output
        /\ exit_code' = r.exit_code
        /\ now' = now + d
        /\ tool_exit_codes' = Put(tool_exit_codes, "destroy", r.exit_code)
        /\ logs' = Put(logs, "destroy", "destroy")
        /\ resultFiles' = resultFiles \cup {"terraform_destroy.txt"}
        /\ timings' = Put(Put(timings, "destroy", d), "total", now + d)
        /\ pass' = TRUE
        /\ pc' = "returned"
        /\ UNCHANGED failure_category
        /\ UNCHANGED <<otherVars, health, check_result, outputsJson, outputsRead>>

\* Lines 360-387: terraform destroy, and the successful return.
Destroy ==
    \E oc \in Outcomes :
        LET r == RunTerraform("destroy", None, oc)
            d == r.elapsed IN
        /\ pc = "destroy"
        /\ executed' = Append(executed, "destroy")
        /\ logFiles' = logFiles \cup {r.log_file}
        /\ success' = r.success
        /\ output' = r.output
        /\ exit_code' = r.exit_code
        /\ now' = now + d
        /\ tool_exit_codes' = Put(tool_exit_codes, "destroy", r.exit_code)
        /\ logs' = Put(logs, "destroy", "destroy")
        /\ resultFiles' = resultFiles \cup {"terraform_destroy.txt"}
        /\ IF ~r.success
           THEN /\ timings' = Put(timings, "destroy", d)
                /\ Fail("DESTROY")
           ELSE /\ timings' = Put(Put(timings, "destroy", d), "total", now + d)
                /\ pass' = TRUE
                /\ pc' = "returned"
                /\ UNCHANGED failure_category
        /\ UNCHANGED <<otherVars, health, check_result, outputsJson, outputsRead>>

Next ==
    \/ CheckLocalstack
    \/ Fmt
    \/ FmtCheck
    \/ TfInit
    \/ Validate
    \/ Plan
    \/ Apply
    \/ Output
    \/ Checks
    \/ Plan2
    \/ Destroy

Spec == Init /\ [][Next]_vars

----------------------------------------------------------------------------
(* BenchmarkRunner.run_benchmark_suite and the paths of a benchmark run *)

\* A name is a sequence of pieces of text; "-" and "/" are pieces of their own.
RECURSIVE Join(_)
Join(pieces) ==
    IF pieces = <<>> THEN "" ELSE Head(pieces) \o Join(Tail(pieces))

\* model.replace('-', '_').replace('/', '_')
Sanitize(model) ==
    [i \in 1 .. Len(model) |-> IF model[i] \in {"-", "/"} THEN "_" ELSE model[i]]

\* Line 52: model_name = f"{provider}_{...}"
ModelName(provider, model) == provider \o "_" \o Join(Sanitize(model))

\* Line 49: run_id = datetime.now().strftime('%Y%m%d_%H%M%S')
RunId(second) == ToString(second)

Providers == {"openai", "anthropic"}

ModelIds == {<<"gpt", "-", "4">>, <<"gpt", "_", "4">>}

ModelConfigs == [provider : Providers, model : ModelIds]

\* the lists of model configurations a suite is given
ModelLists ==
    {<<a>> : a \in ModelConfigs} \cup {<<a, b>> : a, b \in ModelConfigs}

TaskUniverse == <<"task_s3_basic", "task_iam_role_policy", "task_vpc_nat_gateway">>

\* the lists of task ids a suite is given
TaskLists == {SubSeq(TaskUniverse, 1, n) : n \in 1 .. MaxTasks}

\* the values of the argument max_workers
WorkerArgs == {None, 1, 2}

CpuCounts == {1, 2, 8}

Min(a, b) == IF a <= b THEN a ELSE b

\* WorkerCap without the cap of 4
WorkerCapCpuCount(arg, cpus) == IF arg = None THEN cpus ELSE arg

\* Lines 175-177: the number of workers.
WorkerCap(arg, cpus) == IF arg = None THEN Min(cpus, 4) ELSE arg

\* Lines 179-185: the jobs, model by model and task by task.
JobsOf(models, task_ids) ==
    [k \in 1 .. Len(models) * Len(task_ids) |->
        LET m == models[((k - 1) \div Len(task_ids)) + 1]
            t == task_ids[((k - 1) % Len(task_ids)) + 1]
        IN [provider |-> m.provider, model |-> m.model, task_id |-> t]]

Running == {j \in DOMAIN status : status[j] = "running"}

Started == {j \in DOMAIN status : status[j] # "queued"}

\* generated_dir / model_name / task_id / run_id (benchmark.py:95, run_task.py:43)
WorkDir(j) ==
    <<"generated", ModelName(jobs[j].provider, jobs[j].model), jobs[j].task_id,
      RunId(run_ids[j])>>

\* results_dir / model_name / task_id / run_id (run_task.py:44, benchmark.py:144)
ResultDir(j) ==
    <<"results", ModelName(jobs[j].provider, jobs[j].model), jobs[j].task_id,
      RunId(run_ids[j])>>

\* debug / task_id / llm_response_{task_id}.txt (terraform_generator.py:193-195)
DebugFile(j) ==
    <<"debug", jobs[j].task_id, "llm_response_" \o jobs[j].task_id \o ".txt">>

\* The files run_single_benchmark writes for job j: the raw response, the
\* generated files and outputs.json, and the logs, outputs and results.
FilesWritten(j) ==
    {DebugFile(j)}
      \cup {WorkDir(j) \o <<f>> :
                f \in {"main.tf", "variables.tf", "outputs.tf", "outputs.json",
                       "check.json"}}
      \cup {ResultDir(j) \o <<f>> :
                f \in {"logs", "terraform_plan.txt", "terraform_apply.txt",
                       "terraform_plan_2.txt", "terraform_apply_2.txt",
                       "terraform_destroy.txt", "check.json",
                       "benchmark_result.json"}}

\* The call of run_benchmark_suite, up to the creation of the pool.
SuiteStart ==
    \E models \in ModelLists, task_ids \in TaskLists,
       arg \in WorkerArgs, cpus \in CpuCounts :
        /\ spc = "start"
        /\ spc' = "pool"
        /\ max_workers_arg' = arg
        /\ cpu_count' = cpus
        /\ max_workers' = WorkerCap(arg, cpus)
        /\ jobs' = JobsOf(models, task_ids)
        /\ status' = [j \in 1 .. Len(models) * Len(task_ids) |-> "queued"]
        /\ run_ids' = [j \in 1 .. Len(models) * Len(task_ids) |-> None]
        /\ UNCHANGED <<clock, runVars, checkVars,
                   genVars, benchVars>>

\* A worker of the pool takes the next submitted job and enters
\* run_single_benchmark, which takes the run id from the clock.
JobStart ==
    \E j \in DOMAIN status :
        /\ spc = "pool"
        /\ status[j] = "queued"
        /\ \A i \in 1 .. j - 1 : status[i] # "queued"
        /\ Cardinality(Running) < max_workers
        /\ status' = [status EXCEPT ![j] = "running"]
        /\ run_ids' = [run_ids EXCEPT ![j] = clock]
        /\ UNCHANGED <<spc, max_workers_arg, cpu_count, max_workers, jobs,
                       clock, runVars, checkVars,
                   genVars, benchVars>>

\* run_single_benchmark returns.
JobFinish ==
    \E j \in DOMAIN status :
        /\ spc = "pool"
        /\ status[j] = "running"
        /\ status' = [status EXCEPT ![j] = "done"]
        /\ UNCHANGED <<spc, max_workers_arg, cpu_count, max_workers, jobs,
                       run_ids, clock, runVars, checkVars,
                   genVars, benchVars>>

\* A second passes.
Tick ==
    /\ spc = "pool"
    /\ clock < MaxSecond
    /\ clock' = clock + 1
    /\ UNCHANGED <<spc, max_workers_arg, cpu_count, max_workers, jobs,
                   status, run_ids, runVars, checkVars,
                   genVars, benchVars>>

\* Every future has completed: the pool is shut down.
SuiteDone ==
    /\ spc = "pool"
    /\ \A j \in DOMAIN status : status[j] = "done"
    /\ spc' = "done"
    /\ UNCHANGED <<max_workers_arg, cpu_count, max_workers, jobs, status,
                   run_ids, clock, runVars, checkVars,
                   genVars, benchVars>>

SuiteInit ==
    /\ spc = "start"
    /\ max_workers_arg = None
    /\ cpu_count = 1
    /\ max_workers = 1
    /\ jobs = <<>>
    /\ status = <<>>
    /\ run_ids = <<>>
    /\ clock = 0
    /\ RunIdle
    /\ ChecksIdle
    /\ GenIdle
    /\ BenchIdle

SuiteNext ==
    \/ SuiteStart
    \/ JobStart
    \/ JobFinish
    \/ Tick
    \/ SuiteDone

SpecSuite == SuiteInit /\ [][SuiteNext]_vars

\* C14: the files two concurrently executing runs write are all different,
\* every one of them lying under a path with the model name, the task and
\* the run id of its run.
C14_RunScopedPaths ==
    \A i, j \in Running :
        /\ \A f \in FilesWritten(j) :
               \E k \in 1 .. Len(f) - 2 :
                   /\ f[k] = ModelName(jobs[j].provider, jobs[j].model)
                   /\ f[k + 1] = jobs[j].task_id
                   /\ f[k + 2] = RunId(run_ids[j])
        /\ i # j => FilesWritten(i) \cap FilesWritten(j) = {}

\* C15: two jobs of a suite with different (provider, model, task) never
\* have the same work_dir.
C15_WorkDirOwnedByOneJob ==
    \A i, j \in Started :
        jobs[i] # jobs[j] => WorkDir(i) # WorkDir(j)

----------------------------------------------------------------------------
(* runner/checks.py: run_checks and the checker functions *)

\* Python's None as the value of an output that is not there
NoValue == "None"

\* d.get(k, default)
Get(d, k, default) == IF k \in DOMAIN d THEN d[k] ELSE default

\* outputs.get(k, {}).get('value')
OutputValue(outs, k) == Get(outs, k, NoValue)

\* `if expected_checks.get(k)` for a count
TruthyCount(d, k) == k \in DOMAIN d /\ d[k] # 0

\* `if expected_checks.get(k)` for a flag
TruthyFlag(d, k) == k \in DOMAIN d /\ d[k]

\* checks.py:10 imports log_info, log_error, export_localstack_env and
\* load_spec from .utils; log_warn is not among them, so a call of log_warn
\* raises NameError.
LogWarnDefined == FALSE

\* The lists of at most max elements of universe, in the order of universe
\* (a response lists its resources in one order).
Lists(universe, max) ==
    UNION {{[i \in 1 .. n |-> universe[g[i]]] :
               g \in {h \in [1 .. n -> 1 .. Len(universe)] :
                         \A i \in 1 .. n - 1 : h[i] <= h[i + 1]}} :
           n \in 0 .. max}

\* the answers of the control plane to one query
Ok(data) == [kind |-> "ok", data |-> data]

ClientErrors(codes) == {[kind |-> "ClientError", code |-> c] : c \in codes}

\* an exception that is not a ClientError (the endpoint cannot be reached)
OtherError == [kind |-> "error"]

VpcId == "vpc-1"

SubnetNames == <<"subnet-1", "subnet-2", "subnet-3">>

InstanceNames == <<"i-1", "i-2", "i-3">>

TaskIds ==
    {"task_vpc_3subnets_3ec2", "task_s3_basic", "task_security_group_complex",
     "task_iam_role_policy", "task_vpc_nat_gateway",
     "task_vpc_multiple_route_tables", "task_custom"}

\* task_id.startswith("task_s3")
StartsWithTaskS3(id) == id \in {"task_s3_basic"}

\* the task ids run_checks has a checker for (lines 87-118), among TaskIds
RecognisedTaskIds ==
    {"task_vpc_3subnets_3ec2", "task_security_group_complex",
     "task_iam_role_policy", "task_vpc_nat_gateway",
     "task_vpc_multiple_route_tables"}
      \cup {id \in TaskIds : StartsWithTaskS3(id)}

\* the outputs documents of a task
OutputsOf(id) ==
    IF id = "task_vpc_3subnets_3ec2" THEN
        {EmptyDict,
         Put(EmptyDict, "vpc_id", "null")}
          \cup {Put(Put(Put(EmptyDict, "vpc_id", VpcId),
                        "subnet_ids", SubSeq(SubnetNames, 1, n)),
                    "instance_ids", InstanceNames) : n \in {2, 3}}
    ELSE IF StartsWithTaskS3(id) THEN
        {EmptyDict,
         Put(Put(EmptyDict, "bucket_id", "bucket-1"), "bucket_arn", "arn:bucket-1")}
    ELSE IF id = "task_security_group_complex" THEN
        {EmptyDict,
         Put(Put(EmptyDict, "vpc_id", VpcId), "security_group_id", "sg-1")}
    ELSE IF id = "task_iam_role_policy" THEN
        {EmptyDict,
         Put(EmptyDict, "role_arn", "arn:role/role-1"),
         Put(Put(EmptyDict, "role_arn", "arn:role/role-1"),
             "policy_arn", "arn:policy/policy-1")}
    ELSE IF id = "task_vpc_nat_gateway" THEN
        {EmptyDict,
         Put(EmptyDict, "vpc_id", VpcId),
         Put(Put(Put(Put(EmptyDict, "vpc_id", VpcId), "nat_gateway_id", "nat-1"),
                 "public_subnet_id", "subnet-1"), "private_subnet_id", "subnet-2")}
    ELSE IF id = "task_vpc_multiple_route_tables" THEN
        {EmptyDict,
         Put(EmptyDict, "vpc_id", VpcId),
         Put(Put(Put(EmptyDict, "vpc_id", VpcId),
                 "subnet_ids", <<"subnet-1", "subnet-2">>),
             "route_table_ids", <<"rtb-1", "rtb-2">>)}
    ELSE
        {EmptyDict, Put(EmptyDict, "name", "x")}

\* the `checks` sections of the spec.yaml of a task
ExpectedOf(id) ==
    IF id = "task_vpc_3subnets_3ec2" THEN
        {EmptyDict,
         Put(Put(Put(EmptyDict, "vpc_count", 1), "subnet_count", 3),
             "instance_count", 3),
         Put(Put(Put(EmptyDict, "vpc_count", 1), "subnet_count", 2),
             "instance_count", 2)}
    ELSE IF StartsWithTaskS3(id) THEN
        {EmptyDict,
         Put(EmptyDict, "versioning_enabled", TRUE),
         Put(Put(EmptyDict, "versioning_enabled", TRUE), "lifecycle_rule_count", 1),
         Put(Put(EmptyDict, "lifecycle_rule_count", 1),
             "public_access_block_count", 1),
         Put(Put(Put(EmptyDict, "lifecycle_rule_count", 2),
                 "bucket_policy_count", 1), "cors_configuration_count", 1)}
    ELSE IF id = "task_security_group_complex" THEN
        {EmptyDict,
         Put(Put(Put(EmptyDict, "security_group_count", 1),
                 "ingress_rule_count", 1), "egress_rule_count", 1)}
    ELSE IF id = "task_iam_role_policy" THEN
        {EmptyDict,
         Put(Put(EmptyDict, "policy_count", 1), "role_policy_attachment_count", 1)}
    ELSE IF id = "task_vpc_nat_gateway" THEN
        {EmptyDict,
         Put(Put(Put(EmptyDict, "nat_gateway_count", 1),
                 "public_route_table_count", 1), "private_route_table_count", 1)}
    ELSE IF id = "task_vpc_multiple_route_tables" THEN
        {EmptyDict,
         Put(Put(EmptyDict, "subnet_count", 2), "route_table_count", 2)}
    ELSE
        {EmptyDict}

\* the variables a checker works on
checkResults == <<pass_check, errors, counts, wiring, details>>

\* the arguments of run_checks and the files it finds
checkInputs == <<task_id, spec_exists, outputs_exists, outputs, expected_checks>>

\* pass_check, errors, counts, wiring and details become p, e, c, w and d,
\* and run_checks goes on at next
Goto(next, p, e, c, w, d) ==
    /\ cpc' = next
    /\ pass_check' = p
    /\ errors' = e
    /\ counts' = c
    /\ wiring' = w
    /\ details' = d

\* EarlyReturn, returning False with an empty list of errors
EarlyReturnNoMessage(message) ==
    Goto("build", FALSE, <<>>, EmptyDict, EmptyDict, EmptyDict)

\* `return False, [message], {}, {}, {}` of a checker
EarlyReturn(message) ==
    Goto("build", FALSE, <<message>>, EmptyDict, EmptyDict, EmptyDict)

\* an exception leaves run_checks
Raise ==
    /\ cpc' = "raised"
    /\ UNCHANGED checkResults

\* the query named q is answered by r
Answer(q, r) == replies' = Put(replies, q, r)

\* [message] * n
Repeat(message, n) == [i \in 1 .. n |-> message]

\* the number of elements of list that are in bad
RECURSIVE CountIf(_, _)
CountIf(list, bad) ==
    IF list = <<>> THEN 0
    ELSE (IF Head(list) \in bad THEN 1 ELSE 0) + CountIf(Tail(list), bad)

Range(list) == {list[i] : i \in 1 .. Len(list)}

\* Lines 23-59: the spec file and outputs.json are looked up.
RunChecks ==
    /\ cpc = "start"
    /\ IF ~spec_exists
       THEN Goto("returned", FALSE, <<"Spec file not found">>,
                 EmptyDict, EmptyDict, EmptyDict)
       ELSE IF ~outputs_exists
       THEN Goto("returned", FALSE, <<"outputs.json not found">>,
                 EmptyDict, EmptyDict, EmptyDict)
       ELSE Goto("dispatch", TRUE, <<>>, EmptyDict, EmptyDict, EmptyDict)
    /\ UNCHANGED <<checkInputs, replies, check_json, notCheckVars>>

\* Lines 157-166: the head of _check_vpc_3subnets_3ec2.
VpcStart ==
    LET vpc_id == OutputValue(outputs, "vpc_id") IN
    IF vpc_id = NoValue \/ vpc_id = "null"
    THEN EarlyReturn("VPC ID not found in outputs")
    ELSE Goto("vpc.describe_vpcs", TRUE, <<>>, EmptyDict, EmptyDict,
              Put(Put(Put(EmptyDict, "vpc_id", vpc_id),
                      "subnet_ids", Get(outputs, "subnet_ids", <<>>)),
                  "instance_ids", Get(outputs, "instance_ids", <<>>)))

\* the optional sections of _check_s3_tasks, in their order
S3Sections ==
    <<[step |-> "s3.get_bucket_versioning", key |-> "versioning_enabled"],
      [step |-> "s3.get_bucket_lifecycle_configuration",
       key |-> "lifecycle_rule_count"],
      [step |-> "s3.get_public_access_block",
       key |-> "public_access_block_count"],
      [step |-> "s3.get_bucket_policy", key |-> "bucket_policy_count"],
      [step |-> "s3.get_bucket_cors", key |-> "cors_configuration_count"]>>

\* `if expected_checks.get(key)` of section k (lines 271, 284, 303, 318, 332)
S3Expected(k) ==
    IF k = 1 THEN TruthyFlag(expected_checks, S3Sections[k].key)
    ELSE TruthyCount(expected_checks, S3Sections[k].key)

\* where _check_s3_tasks goes on after section k
S3After(k) ==
    LET later == {i \in k + 1 .. Len(S3Sections) : S3Expected(i)} IN
    IF later = {} THEN "build"
    ELSE S3Sections[CHOOSE i \in later : \A j \in later : i <= j].step

\* Lines 252-259: the head of _check_s3_tasks.
S3Start ==
    LET bucket_id ==
            IF OutputValue(outputs, "bucket_id") # NoValue
            THEN OutputValue(outputs, "bucket_id")
            ELSE OutputValue(outputs, "bucket_name") IN
    IF bucket_id = NoValue
    THEN EarlyReturn("Bucket ID/name not found in outputs")
    ELSE Goto("s3.head_bucket", TRUE, <<>>, EmptyDict, EmptyDict,
              Put(Put(EmptyDict, "bucket_id", bucket_id),
                  "bucket_arn", OutputValue(outputs, "bucket_arn")))

\* Lines 363-370: the head of _check_security_group.
SgStart ==
    LET vpc_id == OutputValue(outputs, "vpc_id")
        security_group_id == OutputValue(outputs, "security_group_id") IN
    IF vpc_id = NoValue \/ security_group_id = NoValue
    THEN EarlyReturn("VPC ID or Security Group ID not found in outputs")
    ELSE Goto("sg.describe_vpcs", TRUE, <<>>, EmptyDict, EmptyDict,
              Put(Put(EmptyDict, "vpc_id", vpc_id),
                  "security_group_id", security_group_id))

\* Lines 435-445: the head of _check_iam_role_policy.
IamStart ==
    LET role_arn == OutputValue(outputs, "role_arn") IN
    IF role_arn = NoValue
    THEN EarlyReturn("Role ARN not found in outputs")
    ELSE Goto("iam.get_role", TRUE, <<>>, EmptyDict, EmptyDict,
              Put(Put(EmptyDict, "role_arn", role_arn),
                  "policy_arn", OutputValue(outputs, "policy_arn")))

\* Lines 621-630: the head of _check_vpc_nat_gateway.
NatStart ==
    LET vpc_id == OutputValue(outputs, "vpc_id") IN
    IF vpc_id = NoValue
    THEN EarlyReturn("VPC ID not found in outputs")
    ELSE Goto("nat.describe_vpcs", TRUE, <<>>, EmptyDict, EmptyDict,
              Put(Put(EmptyDict, "vpc_id", vpc_id),
                  "nat_gateway_id", OutputValue(outputs, "nat_gateway_id")))

\* Lines 768-777: the head of _check_vpc_multiple_route_tables.
RtStart ==
    LET vpc_id == OutputValue(outputs, "vpc_id")
        subnet_ids == OutputValue(outputs, "subnet_ids")
        route_table_ids == OutputValue(outputs, "route_table_ids") IN
    IF vpc_id = NoValue
    THEN EarlyReturn("VPC ID not found in outputs")
    ELSE Goto("rt.describe_vpcs", TRUE, <<>>, EmptyDict, EmptyDict,
              Put(Put(Put(EmptyDict, "vpc_id", vpc_id),
                      "subnet_ids",
                      IF subnet_ids = NoValue THEN <<>> ELSE subnet_ids),
                  "route_table_ids",
                  IF route_table_ids = NoValue THEN <<>> ELSE route_table_ids))

\* Lines 836-851: _check_generic.
check_generic ==
    IF outputs = EmptyDict
    THEN EarlyReturn("No outputs found")
    ELSE IF LogWarnDefined
    THEN Goto("build", TRUE, <<>>, EmptyDict, EmptyDict,
              Put(EmptyDict, "outputs", outputs))
    ELSE Raise

\* Lines 86-123: the checker of the task is called.
Dispatch ==
    /\ cpc = "dispatch"
    /\ IF task_id = "task_vpc_3subnets_3ec2" THEN VpcStart
       ELSE IF StartsWithTaskS3(task_id) THEN S3Start
       ELSE IF task_id = "task_security_group_complex" THEN SgStart
       ELSE IF task_id = "task_iam_role_policy" THEN IamStart
       ELSE IF task_id = "task_vpc_nat_gateway" THEN NatStart
       ELSE IF task_id = "task_vpc_multiple_route_tables" THEN RtStart
       ELSE IF LogWarnDefined THEN check_generic
       ELSE Raise
    /\ UNCHANGED <<checkInputs, replies, check_json, notCheckVars>>

\* f"Expected {expected} {what}, found {found}"
ExpectedFound(expected, what, found) ==
    "Expected " \o ToString(expected) \o " " \o what \o ", found "
      \o ToString(found)

\* Lines 168-180: describe_vpcs of the VPC checker.
VpcDescribeVpcs ==
    \E r \in {Ok(n) : n \in 0 .. 1} \cup ClientErrors({"InvalidVpcID.NotFound"})
               \cup {OtherError} :
        /\ cpc = "vpc.describe_vpcs"
        /\ Answer(cpc, r)
        /\ IF r.kind = "ok" THEN
               LET vpc_count == r.data
                   expected_vpc == Get(expected_checks, "vpc_count", 1)
                   wrong == vpc_count # expected_vpc IN
               Goto("vpc.describe_subnets",
                    IF wrong THEN FALSE ELSE pass_check,
                    IF wrong
                    THEN Append(errors, ExpectedFound(expected_vpc, "VPC", vpc_count))
                    ELSE errors,
                    Put(counts, "vpc", vpc_count), wiring, details)
           ELSE IF r.kind = "ClientError" THEN
               EarlyReturn("Failed to describe VPC: " \o r.code)
           ELSE Raise
        /\ UNCHANGED <<checkInputs, check_json, notCheckVars>>

\* the VpcId of a subnet of a response
SubnetVpcIds == <<VpcId, "vpc-2">>

\* Lines 182-206: describe_subnets of the VPC checker.
VpcDescribeSubnets ==
    \E r \in {Ok(l) : l \in Lists(SubnetVpcIds, MaxResources)}
               \cup ClientErrors({"RequestLimitExceeded"}) \cup {OtherError} :
        /\ cpc = "vpc.describe_subnets"
        /\ Answer(cpc, r)
        /\ IF r.kind = "ok" THEN
               LET subnet_count == Len(r.data)
                   expected_subnets == Get(expected_checks, "subnet_count", 3)
                   wrong == subnet_count # expected_subnets
                   outside == CountIf(r.data, Range(SubnetVpcIds) \ {details["vpc_id"]})
               IN
               Goto("vpc.describe_instances",
                    IF wrong \/ outside > 0 THEN FALSE ELSE pass_check,
                    (IF wrong
                     THEN Append(errors,
                                 ExpectedFound(expected_subnets, "subnets", subnet_count))
                     ELSE errors)
                      \o Repeat("Subnet wiring error: subnet not in expected VPC",
                                outside),
                    Put(counts, "subnet", subnet_count),
                    Put(wiring, "subnets_in_vpc", TRUE), details)
           ELSE IF r.kind = "ClientError" THEN
               Goto("vpc.describe_instances", FALSE,
                    Append(errors, "Failed to describe subnets: " \o r.code),
                    counts, wiring, details)
           ELSE Raise
        /\ UNCHANGED <<checkInputs, check_json, notCheckVars>>

\* the SubnetId of an instance of a response
InstanceSubnetIds == SubnetNames \o <<"subnet-9">>

\* InstancesWired, asking for an instance in each of the subnets
InstancesWiredToAll(found_subnet_ids, expected_subnet_ids) ==
    found_subnet_ids = expected_subnet_ids

\* Line 231: found_subnet_ids.issubset(expected_subnet_ids)
InstancesWired(found_subnet_ids, expected_subnet_ids) ==
    found_subnet_ids \subseteq expected_subnet_ids

\* Lines 208-240: describe_instances of the VPC checker.
VpcDescribeInstances ==
    \E r \in {Ok(l) : l \in Lists(InstanceSubnetIds, MaxResources)}
               \cup ClientErrors({"RequestLimitExceeded"}) \cup {OtherError} :
        /\ cpc = "vpc.describe_instances"
        /\ Answer(cpc, r)
        /\ IF r.kind = "ok" THEN
               LET instance_count == Len(r.data)
                   expected_instances == Get(expected_checks, "instance_count", 3)
                   wrong == instance_count # expected_instances
                   wired == InstancesWired(Range(r.data),
                                           Range(details["subnet_ids"]))
               IN
               Goto("build",
                    IF wrong \/ ~wired THEN FALSE ELSE pass_check,
                    (IF wrong
                     THEN Append(errors,
                                 ExpectedFound(expected_instances, "instances",
                                               instance_count))
                     ELSE errors)
                      \o (IF wired THEN <<>>
                          ELSE <<"Instance wiring error: instance in unexpected subnet">>),
                    Put(counts, "instance", instance_count),
                    Put(wiring, "instances_in_subnets", TRUE), details)
           ELSE IF r.kind = "ClientError" THEN
               Goto("build", FALSE,
                    Append(errors, "Failed to describe instances: " \o r.code),
                    counts, wiring, details)
           ELSE Raise
        /\ UNCHANGED <<checkInputs, check_json, notCheckVars>>

\* a call of log_warn, after which the checker would go on as given
LogWarnThen(goon) == IF LogWarnDefined THEN goon ELSE Raise

\* Lines 261-268: head_bucket.
S3HeadBucket ==
    \E r \in {Ok(1)} \cup ClientErrors({"404"}) \cup {OtherError} :
        /\ cpc = "s3.head_bucket"
        /\ Answer(cpc, r)
        /\ IF r.kind = "ok" THEN
               Goto(S3After(0), pass_check, errors, Put(counts, "bucket", 1),
                    wiring, details)
           ELSE IF r.kind = "ClientError" THEN
               EarlyReturn("Bucket " \o details["bucket_id"] \o " does not exist: "
                             \o r.code)
           ELSE Raise
        /\ UNCHANGED <<checkInputs, check_json, notCheckVars>>

\* S3GetBucketVersioning, taking every reported status but the empty one for
\* an enabled versioning
S3GetBucketVersioningNotOff ==
    \E r \in {Ok(s) : s \in {"Enabled", "Suspended", ""}}
               \cup ClientErrors({"AccessDenied"}) \cup {OtherError} :
        /\ cpc = "s3.get_bucket_versioning"
        /\ Answer(cpc, r)
        /\ IF r.kind = "ok" THEN
               LET versioning_status == r.data
                   wrong == versioning_status = "" IN
               Goto(S3After(1),
                    IF wrong THEN FALSE ELSE pass_check,
                    IF wrong
                    THEN Append(errors, "Versioning not enabled: " \o versioning_status)
                    ELSE errors,
                    counts, wiring,
                    Put(details, "versioning_status", versioning_status))
           ELSE IF r.kind = "ClientError" THEN
               LogWarnThen(Goto(S3After(1), pass_check, errors, counts, wiring,
                                details))
           ELSE Raise
        /\ UNCHANGED <<checkInputs, check_json, notCheckVars>>

\* Lines 270-281: get_bucket_versioning.
S3GetBucketVersioning ==
    \E r \in {Ok(s) : s \in {"Enabled", "Suspended", ""}}
               \cup ClientErrors({"AccessDenied"}) \cup {OtherError} :
        /\ cpc = "s3.get_bucket_versioning"
        /\ Answer(cpc, r)
        /\ IF r.kind = "ok" THEN
               LET versioning_status == r.data
                   wrong == versioning_status # "Enabled" IN
               Goto(S3After(1),
                    IF wrong THEN FALSE ELSE pass_check,
                    IF wrong
                    THEN Append(errors, "Versioning not enabled: " \o versioning_status)
                    ELSE errors,
                    counts, wiring,
                    Put(details, "versioning_status", versioning_status))
           ELSE IF r.kind = "ClientError" THEN
               LogWarnThen(Goto(S3After(1), pass_check, errors, counts, wiring,
                                details))
           ELSE Raise
        /\ UNCHANGED <<checkInputs, check_json, notCheckVars>>

\* Lines 283-300: get_bucket_lifecycle_configuration.
S3GetBucketLifecycleConfiguration ==
    \E r \in {Ok(n) : n \in 0 .. MaxResources}
               \cup ClientErrors({"NoSuchLifecycleConfiguration", "AccessDenied"})
               \cup {OtherError} :
        /\ cpc = "s3.get_bucket_lifecycle_configuration"
        /\ Answer(cpc, r)
        /\ IF r.kind = "ok" THEN
               LET rule_count == r.data
                   expected_rules == Get(expected_checks, "lifecycle_rule_count", 1)
                   wrong == rule_count # expected_rules IN
               Goto(S3After(2),
                    IF wrong THEN FALSE ELSE pass_check,
                    IF wrong
                    THEN Append(errors, ExpectedFound(expected_rules,
                                                      "lifecycle rules", rule_count))
                    ELSE errors,
                    Put(counts, "lifecycle_rule", rule_count),
                    Put(wiring, "lifecycle_rule_attached", TRUE), details)
           ELSE IF r.kind = "ClientError" THEN
               LET goon == Goto(S3After(2), FALSE,
                                Append(errors, "Lifecycle configuration not found"),
                                counts, wiring, details) IN
               IF r.code # "NoSuchLifecycleConfiguration"
               THEN LogWarnThen(goon) ELSE goon
           ELSE Raise
        /\ UNCHANGED <<checkInputs, check_json, notCheckVars>>

\* Lines 302-315: get_public_access_block.
S3GetPublicAccessBlock ==
    \E r \in {Ok(1)}
               \cup ClientErrors({"NoSuchPublicAccessBlockConfiguration",
                                  "AccessDenied"})
               \cup {OtherError} :
        /\ cpc = "s3.get_public_access_block"
        /\ Answer(cpc, r)
        /\ IF r.kind = "ok" THEN
               Goto(S3After(3), pass_check, errors,
                    Put(counts, "public_access_block", 1),
                    Put(wiring, "public_access_block_attached", TRUE),
                    Put(details, "public_access_block", "config"))
           ELSE IF r.kind = "ClientError" THEN
               LET goon == Goto(S3After(3), FALSE,
                                Append(errors, "Public access block not found"),
                                counts, wiring, details) IN
               IF r.code # "NoSuchPublicAccessBlockConfiguration"
               THEN LogWarnThen(goon) ELSE goon
           ELSE Raise
        /\ UNCHANGED <<checkInputs, check_json, notCheckVars>>

\* Lines 317-329: get_bucket_policy.
S3GetBucketPolicy ==
    \E r \in {Ok(1)} \cup ClientErrors({"NoSuchBucketPolicy", "AccessDenied"})
               \cup {OtherError} :
        /\ cpc = "s3.get_bucket_policy"
        /\ Answer(cpc, r)
        /\ IF r.kind = "ok" THEN
               Goto(S3After(4), pass_check, errors,
                    Put(counts, "bucket_policy", 1),
                    Put(wiring, "bucket_policy_attached", TRUE),
                    Put(details, "bucket_policy", "policy"))
           ELSE IF r.kind = "ClientError" THEN
               LET goon == Goto(S3After(4), FALSE,
                                Append(errors, "Bucket policy not found"),
                                counts, wiring, details) IN
               IF r.code # "NoSuchBucketPolicy"
               THEN LogWarnThen(goon) ELSE goon
           ELSE Raise
        /\ UNCHANGED <<checkInputs, check_json, notCheckVars>>

\* Lines 331-349: get_bucket_cors.
S3GetBucketCors ==
    \E r \in {Ok(n) : n \in 0 .. 1}
               \cup ClientErrors({"NoSuchCORSConfiguration", "AccessDenied"})
               \cup {OtherError} :
        /\ cpc = "s3.get_bucket_cors"
        /\ Answer(cpc, r)
        /\ IF r.kind = "ok" THEN
               IF r.data > 0
               THEN Goto("build", pass_check, errors,
                         Put(counts, "cors_configuration", 1),
                         Put(wiring, "cors_configuration_attached", TRUE),
                         Put(details, "cors_rules", "rules"))
               ELSE Goto("build", FALSE,
                         Append(errors, "CORS configuration not found or empty"),
                         counts, wiring, details)
           ELSE IF r.kind = "ClientError" THEN
               LET goon == Goto("build", FALSE,
                                Append(errors, "CORS configuration not found"),
                                counts, wiring, details) IN
               IF r.code # "NoSuchCORSConfiguration"
               THEN LogWarnThen(goon) ELSE goon
           ELSE Raise
        /\ UNCHANGED <<checkInputs, check_json, notCheckVars>>

\* Lines 447-463: get_role.
IamGetRole ==
    \E r \in {Ok(allows) : allows \in BOOLEAN} \cup ClientErrors({"NoSuchEntity"})
               \cup {OtherError} :
        /\ cpc = "iam.get_role"
        /\ Answer(cpc, r)
        /\ IF r.kind = "ok" THEN
               LET next == IF details["policy_arn"] # NoValue
                           THEN "iam.get_policy"
                           ELSE "iam.list_attached_role_policies" IN
               IF r.data
               THEN Goto(next, pass_check, errors, Put(counts, "role", 1),
                         Put(wiring, "trust_policy_allows_ec2", TRUE),
                         Put(details, "role", "role"))
               ELSE Goto(next, FALSE,
                         Append(errors, "Trust policy does not allow EC2 service"),
                         Put(counts, "role", 1), wiring,
                         Put(details, "role", "role"))
           ELSE IF r.kind = "ClientError" THEN
               EarlyReturn("Failed to get role: " \o r.code)
           ELSE Raise
        /\ UNCHANGED <<checkInputs, check_json, notCheckVars>>

\* Lines 465-476: get_policy.
IamGetPolicy ==
    \E r \in {Ok(1)} \cup ClientErrors({"NoSuchEntity"}) \cup {OtherError} :
        /\ cpc = "iam.get_policy"
        /\ Answer(cpc, r)
        /\ IF r.kind = "ok" THEN
               Goto("iam.list_attached_role_policies", pass_check, errors,
                    Put(counts, "policy", 1), wiring, details)
           ELSE IF r.kind = "ClientError" THEN
               LogWarnThen(
                   IF TruthyCount(expected_checks, "policy_count")
                   THEN Goto("iam.list_attached_role_policies", FALSE,
                             Append(errors, "Policy not found: " \o r.code),
                             counts, wiring, details)
                   ELSE Goto("iam.list_attached_role_policies", pass_check,
                             errors, counts, wiring, details))
           ELSE Raise
        /\ UNCHANGED <<checkInputs, check_json, notCheckVars>>

\* Lines 478-492: list_attached_role_policies.
IamListAttachedRolePolicies ==
    \E r \in {Ok(n) : n \in 0 .. MaxResources} \cup ClientErrors({"NoSuchEntity"})
               \cup {OtherError} :
        /\ cpc = "iam.list_attached_role_policies"
        /\ Answer(cpc, r)
        /\ IF r.kind = "ok" THEN
               LET attachment_count == r.data
                   expected_attachments ==
                       Get(expected_checks, "role_policy_attachment_count", 0)
                   wrong == expected_attachments > 0
                              /\ attachment_count < expected_attachments IN
               Goto("build",
                    IF wrong THEN FALSE ELSE pass_check,
                    IF wrong
                    THEN Append(errors, ExpectedFound(expected_attachments,
                                            "policy attachments", attachment_count))
                    ELSE errors,
                    Put(counts, "role_policy_attachment", attachment_count),
                    IF attachment_count > 0
                    THEN Put(wiring, "policy_attached_to_role", TRUE) ELSE wiring,
                    details)
           ELSE IF r.kind = "ClientError" THEN
               LogWarnThen(Goto("build", pass_check, errors, counts, wiring, details))
           ELSE Raise
        /\ UNCHANGED <<checkInputs, check_json, notCheckVars>>

\* Lines 632-637: describe_vpcs of the NAT gateway checker.
NatDescribeVpcs ==
    \E r \in {Ok(n) : n \in 0 .. 1} \cup ClientErrors({"InvalidVpcID.NotFound"})
               \cup {OtherError} :
        /\ cpc = "nat.describe_vpcs"
        /\ Answer(cpc, r)
        /\ IF r.kind = "ok" THEN
               Goto(IF details["nat_gateway_id"] # NoValue
                    THEN "nat.describe_nat_gateways"
                    ELSE "nat.describe_route_tables",
                    pass_check, errors, Put(counts, "vpc", r.data), wiring, details)
           ELSE IF r.kind = "ClientError" THEN
               EarlyReturn("Failed to describe VPC: " \o r.code)
           ELSE Raise
        /\ UNCHANGED <<checkInputs, check_json, notCheckVars>>

\* the SubnetId of a NAT gateway of a response
NatSubnetIds == <<"subnet-1", "subnet-2">>

\* Lines 639-659: describe_nat_gateways.
NatDescribeNatGateways ==
    \E r \in {Ok(l) : l \in Lists(NatSubnetIds, MaxResources)}
               \cup ClientErrors({"NatGatewayNotFound"}) \cup {OtherError} :
        /\ cpc = "nat.describe_nat_gateways"
        /\ Answer(cpc, r)
        /\ IF r.kind = "ok" THEN
               LET nat_count == Len(r.data)
                   expected_nat == Get(expected_checks, "nat_gateway_count", 1)
                   wrong == nat_count # expected_nat
                   misplaced == nat_count > 0
                                  /\ r.data[1] # OutputValue(outputs, "public_subnet_id")
               IN
               Goto("nat.describe_route_tables",
                    IF wrong \/ misplaced THEN FALSE ELSE pass_check,
                    (IF wrong
                     THEN Append(errors,
                                 ExpectedFound(expected_nat, "NAT Gateway", nat_count))
                     ELSE errors)
                      \o (IF misplaced THEN <<"NAT Gateway not in public subnet">>
                          ELSE <<>>),
                    Put(counts, "nat_gateway", nat_count),
                    IF nat_count > 0 /\ ~misplaced
                    THEN Put(wiring, "nat_gateway_in_public_subnet", TRUE)
                    ELSE wiring,
                    details)
           ELSE IF r.kind = "ClientError" THEN
               Goto("nat.describe_route_tables", FALSE,
                    Append(errors, "Failed to describe NAT Gateway: " \o r.code),
                    counts, wiring, details)
           ELSE Raise
        /\ UNCHANGED <<checkInputs, check_json, notCheckVars>>

\* the target of the default route of a route table of a response
DefaultRoutes == <<"GatewayId", "NatGatewayId", "none">>

\* Lines 661-686: describe_route_tables.
NatDescribeRouteTables ==
    \E r \in {Ok(l) : l \in Lists(DefaultRoutes, MaxResources)}
               \cup ClientErrors({"RequestLimitExceeded"}) \cup {OtherError} :
        /\ cpc = "nat.describe_route_tables"
        /\ Answer(cpc, r)
        /\ IF r.kind = "ok" THEN
               LET rt_count == Len(r.data)
                   expected_rt ==
                       Get(expected_checks, "public_route_table_count", 0)
                         + Get(expected_checks, "private_route_table_count", 0)
                   wrong == rt_count < expected_rt
                   w1 == IF "GatewayId" \in Range(r.data)
                         THEN Put(wiring, "public_route_to_igw", TRUE) ELSE wiring
                   w2 == IF "NatGatewayId" \in Range(r.data)
                         THEN Put(w1, "private_route_to_nat", TRUE) ELSE w1
               IN
               Goto("build",
                    IF wrong THEN FALSE ELSE pass_check,
                    IF wrong
                    THEN Append(errors,
                                "Expected at least " \o ToString(expected_rt)
                                  \o " route tables, found " \o ToString(rt_count))
                    ELSE errors,
                    Put(counts, "route_table", rt_count), w2, details)
           ELSE IF r.kind = "ClientError" THEN
               Goto("build", FALSE,
                    Append(errors, "Failed to describe Route Tables: " \o r.code),
                    counts, wiring, details)
           ELSE Raise
        /\ UNCHANGED <<checkInputs, check_json, notCheckVars>>

\* Lines 372-382: describe_vpcs of the security group checker.
SgDescribeVpcs ==
    \E r \in {Ok(n) : n \in 0 .. 1} \cup ClientErrors({"InvalidVpcID.NotFound"})
               \cup {OtherError} :
        /\ cpc = "sg.describe_vpcs"
        /\ Answer(cpc, r)
        /\ IF r.kind = "ok" THEN
               LET vpc_count == r.data
                   expected_vpc == Get(expected_checks, "vpc_count", 1)
                   wrong == vpc_count # expected_vpc IN
               Goto("sg.describe_security_groups",
                    IF wrong THEN FALSE ELSE pass_check,
                    IF wrong
                    THEN Append(errors, ExpectedFound(expected_vpc, "VPC", vpc_count))
                    ELSE errors,
                    Put(counts, "vpc", vpc_count), wiring, details)
           ELSE IF r.kind = "ClientError" THEN
               EarlyReturn("Failed to describe VPC: " \o r.code)
           ELSE Raise
        /\ UNCHANGED <<checkInputs, check_json, notCheckVars>>

\* the security groups a response can list
SecurityGroups ==
    <<[VpcId |-> VpcId, IpPermissions |-> 1, IpPermissionsEgress |-> 1],
      [VpcId |-> VpcId, IpPermissions |-> 0, IpPermissionsEgress |-> 2],
      [VpcId |-> "vpc-2", IpPermissions |-> 1, IpPermissionsEgress |-> 1]>>

\* Lines 384-423: describe_security_groups.
SgDescribeSecurityGroups ==
    \E r \in {Ok(l) : l \in Lists(SecurityGroups, MaxResources)}
               \cup ClientErrors({"InvalidGroup.NotFound"}) \cup {OtherError} :
        /\ cpc = "sg.describe_security_groups"
        /\ Answer(cpc, r)
        /\ IF r.kind = "ok" THEN
               LET sg_count == Len(r.data)
                   expected_sg == Get(expected_checks, "security_group_count", 1)
                   expected_ingress == Get(expected_checks, "ingress_rule_count", 0)
                   expected_egress == Get(expected_checks, "egress_rule_count", 0)
                   e1 == IF sg_count # expected_sg
                         THEN <<ExpectedFound(expected_sg, "security group", sg_count)>>
                         ELSE <<>>
                   e2 == IF sg_count > 0 /\ r.data[1].VpcId # details["vpc_id"]
                         THEN <<"Security group not in expected VPC">> ELSE <<>>
                   e3 == IF sg_count > 0 /\ r.data[1].IpPermissions # expected_ingress
                         THEN <<ExpectedFound(expected_ingress, "ingress rules",
                                              r.data[1].IpPermissions)>>
                         ELSE <<>>
                   e4 == IF sg_count > 0 /\ r.data[1].IpPermissionsEgress # expected_egress
                         THEN <<ExpectedFound(expected_egress, "egress rules",
                                              r.data[1].IpPermissionsEgress)>>
                         ELSE <<>>
                   c1 == Put(counts, "security_group", sg_count)
               IN
               Goto("build",
                    IF e1 \o e2 \o e3 \o e4 # <<>> THEN FALSE ELSE pass_check,
                    errors \o e1 \o e2 \o e3 \o e4,
                    IF sg_count > 0
                    THEN Put(Put(c1, "ingress_rule", r.data[1].IpPermissions),
                             "egress_rule", r.data[1].IpPermissionsEgress)
                    ELSE c1,
                    IF sg_count > 0
                    THEN Put(wiring, "security_group_in_vpc", TRUE) ELSE wiring,
                    details)
           ELSE IF r.kind = "ClientError" THEN
               Goto("build", FALSE,
                    Append(errors, "Failed to describe security group: " \o r.code),
                    counts, wiring, details)
           ELSE Raise
        /\ UNCHANGED <<checkInputs, check_json, notCheckVars>>

\* Lines 779-784: describe_vpcs of the route table checker.
RtDescribeVpcs ==
    \E r \in {Ok(n) : n \in 0 .. 1} \cup ClientErrors({"InvalidVpcID.NotFound"})
               \cup {OtherError} :
        /\ cpc = "rt.describe_vpcs"
        /\ Answer(cpc, r)
        /\ IF r.kind = "ok" THEN
               Goto("rt.describe_subnets", pass_check, errors,
                    Put(counts, "vpc", r.data), wiring, details)
           ELSE IF r.kind = "ClientError" THEN
               EarlyReturn("Failed to describe VPC: " \o r.code)
           ELSE Raise
        /\ UNCHANGED <<checkInputs, check_json, notCheckVars>>

\* Lines 786-802: describe_subnets of the route table checker; the answer is
\* the number of subnets of the VPC that carry the tag of the task.
RtDescribeSubnets ==
    \E r \in {Ok(n) : n \in 0 .. MaxResources}
               \cup ClientErrors({"RequestLimitExceeded"}) \cup {OtherError} :
        /\ cpc = "rt.describe_subnets"
        /\ Answer(cpc, r)
        /\ IF r.kind = "ok" THEN
               LET subnet_count == r.data
                   expected_subnets == Get(expected_checks, "subnet_count", 3)
                   wrong == subnet_count # expected_subnets
               IN
               Goto("rt.describe_route_tables",
                    IF wrong THEN FALSE ELSE pass_check,
                    IF wrong
                    THEN Append(errors,
                                ExpectedFound(expected_subnets, "subnets", subnet_count))
                    ELSE errors,
                    Put(counts, "subnet", subnet_count), wiring, details)
           ELSE IF r.kind = "ClientError" THEN
               Goto("rt.describe_route_tables", FALSE,
                    Append(errors, "Failed to describe subnets: " \o r.code),
                    counts, wiring, details)
           ELSE Raise
        /\ UNCHANGED <<checkInputs, check_json, notCheckVars>>

\* the SubnetIds of the associations of a route table of a response
RouteTableAssociations ==
    <<{}, {"subnet-1"}, {"subnet-2"}, {"subnet-9"}, {"subnet-1", "subnet-2"}>>

\* Lines 817-822: associated_subnets, the subnets associated with some route
\* table of the response
AssociatedSubnets(route_tables) ==
    UNION {route_tables[i] : i \in 1 .. Len(route_tables)}

\* Line 824: `len(associated_subnets) == len(subnet_ids)`
SubnetsAssociated(associated_subnets, subnet_ids) ==
    Cardinality(associated_subnets) = Len(subnet_ids)

\* Lines 804-831: describe_route_tables of the route table checker.
RtDescribeRouteTables ==
    \E r \in {Ok(l) : l \in Lists(RouteTableAssociations, MaxResources)}
               \cup ClientErrors({"RequestLimitExceeded"}) \cup {OtherError} :
        /\ cpc = "rt.describe_route_tables"
        /\ Answer(cpc, r)
        /\ IF r.kind = "ok" THEN
               LET rt_count == Len(r.data)
                   expected_rt == Get(expected_checks, "route_table_count", 2)
                   wrong == rt_count # expected_rt
                   associated == SubnetsAssociated(AssociatedSubnets(r.data),
                                                   details["subnet_ids"])
               IN
               Goto("build",
                    IF wrong \/ ~associated THEN FALSE ELSE pass_check,
                    (IF wrong
                     THEN Append(errors,
                                 ExpectedFound(expected_rt, "route tables", rt_count))
                     ELSE errors)
                      \o (IF associated THEN <<>>
                          ELSE <<"Not all subnets are associated with route tables">>),
                    Put(counts, "route_table", rt_count),
                    IF associated
                    THEN Put(wiring, "all_subnets_associated_with_route_tables", TRUE)
                    ELSE wiring,
                    details)
           ELSE IF r.kind = "ClientError" THEN
               Goto("build", FALSE,
                    Append(errors, "Failed to describe Route Tables: " \o r.code),
                    counts, wiring, details)
           ELSE Raise
        /\ UNCHANGED <<checkInputs, check_json, notCheckVars>>

\* Lines 125-145: the result is built, written to check.json and returned.
BuildResult ==
    /\ cpc = "build"
    /\ cpc' = "returned"
    /\ check_json' = TRUE
    /\ UNCHANGED <<checkResults, checkInputs, replies, notCheckVars>>

\* the state before run_checks is called
ChecksInit ==
    /\ cpc = "start"
    /\ task_id \in TaskIds
    /\ spec_exists \in BOOLEAN
    /\ outputs_exists \in BOOLEAN
    /\ outputs \in OutputsOf(task_id)
    /\ expected_checks \in ExpectedOf(task_id)
    /\ pass_check = TRUE
    /\ errors = <<>>
    /\ counts = EmptyDict
    /\ wiring = EmptyDict
    /\ details = EmptyDict
    /\ replies = EmptyDict
    /\ check_json = FALSE
    /\ RunIdle
    /\ SuiteIdle
    /\ GenIdle
    /\ BenchIdle

ChecksNext ==
    \/ RunChecks
    \/ Dispatch
    \/ VpcDescribeVpcs
    \/ VpcDescribeSubnets
    \/ VpcDescribeInstances
    \/ S3HeadBucket
    \/ S3GetBucketVersioning
    \/ S3GetBucketLifecycleConfiguration
    \/ S3GetPublicAccessBlock
    \/ S3GetBucketPolicy
    \/ S3GetBucketCors
    \/ SgDescribeVpcs
    \/ SgDescribeSecurityGroups
    \/ IamGetRole
    \/ IamGetPolicy
    \/ IamListAttachedRolePolicies
    \/ NatDescribeVpcs
    \/ NatDescribeNatGateways
    \/ NatDescribeRouteTables
    \/ RtDescribeVpcs
    \/ RtDescribeSubnets
    \/ RtDescribeRouteTables
    \/ BuildResult

SpecChecks == ChecksInit /\ [][ChecksNext]_vars

\* the control-plane queries that were answered by a ClientError
ClientFailures == {q \in DOMAIN replies : replies[q].kind = "ClientError"}

\* the queries behind the assertions the task declares: those its checker
\* makes for these outputs and expected checks
Assertions ==
    IF task_id = "task_vpc_3subnets_3ec2" THEN
        {"vpc.describe_vpcs", "vpc.describe_subnets", "vpc.describe_instances"}
    ELSE IF StartsWithTaskS3(task_id) THEN
        {"s3.head_bucket"}
          \cup {S3Sections[k].step : k \in {i \in DOMAIN S3Sections : S3Expected(i)}}
    ELSE IF task_id = "task_security_group_complex" THEN
        {"sg.describe_vpcs", "sg.describe_security_groups"}
    ELSE IF task_id = "task_iam_role_policy" THEN
        {"iam.get_role", "iam.list_attached_role_policies"}
          \cup (IF OutputValue(outputs, "policy_arn") # NoValue
                THEN {"iam.get_policy"} ELSE {})
    ELSE IF task_id = "task_vpc_nat_gateway" THEN
        {"nat.describe_vpcs", "nat.describe_route_tables"}
          \cup (IF OutputValue(outputs, "nat_gateway_id") # NoValue
                THEN {"nat.describe_nat_gateways"} ELSE {})
    ELSE {}

\* C17: when a control-plane query of a checker fails, run_checks still
\* returns, with pass false, an error for each failed query, and every
\* declared assertion evaluated.
C17_QueryFailureNonFatal ==
    (cpc \in {"returned", "raised"} /\ ClientFailures # {}) =>
        /\ cpc = "returned"
        /\ ~pass_check
        /\ Len(errors) >= Cardinality(ClientFailures)
        /\ Assertions \subseteq DOMAIN replies

\* the declared counts and the query that observes each
DeclaredCounts ==
    {[key |-> "vpc_count", step |-> "vpc.describe_vpcs", listed |-> FALSE],
     [key |-> "subnet_count", step |-> "vpc.describe_subnets", listed |-> TRUE],
     [key |-> "instance_count", step |-> "vpc.describe_instances", listed |-> TRUE],
     [key |-> "lifecycle_rule_count",
      step |-> "s3.get_bucket_lifecycle_configuration", listed |-> FALSE],
     [key |-> "public_access_block_count", step |-> "s3.get_public_access_block",
      listed |-> FALSE],
     [key |-> "bucket_policy_count", step |-> "s3.get_bucket_policy",
      listed |-> FALSE],
     [key |-> "role_policy_attachment_count",
      step |-> "iam.list_attached_role_policies", listed |-> FALSE],
     [key |-> "nat_gateway_count", step |-> "nat.describe_nat_gateways",
      listed |-> TRUE]}

\* the count the control plane reported to the query of c
Observed(c) == IF c.listed THEN Len(replies[c.step].data) ELSE replies[c.step].data

\* the declared counts the control plane reported another number for
Mismatches ==
    {c \in DeclaredCounts :
        /\ c.key \in DOMAIN expected_checks
        /\ c.step \in DOMAIN replies
        /\ replies[c.step].kind = "ok"
        /\ Observed(c) # expected_checks[c.key]}

\* the number of route tables the NAT gateway task declares
DeclaredRouteTables ==
    Get(expected_checks, "public_route_table_count", 0)
      + Get(expected_checks, "private_route_table_count", 0)

RouteTableMismatch ==
    /\ "public_route_table_count" \in DOMAIN expected_checks
    /\ "nat.describe_route_tables" \in DOMAIN replies
    /\ replies["nat.describe_route_tables"].kind = "ok"
    /\ Len(replies["nat.describe_route_tables"].data) # DeclaredRouteTables

\* C18: a checker that returns after it observed, for a resource type with a
\* declared count, more or fewer resources than declared returns pass false
\* with an error.
C18_CountMismatchFails ==
    (cpc = "returned" /\ (Mismatches # {} \/ RouteTableMismatch)) =>
        ~pass_check /\ errors # <<>>

\* C19: for a task id without a checker of its own run_checks returns, with
\* pass true exactly when the outputs document is not empty.
C19_GenericFallback ==
    (task_id \notin RecognisedTaskIds /\ spec_exists /\ outputs_exists
       /\ cpc \notin {"start", "dispatch", "build"}) =>
        /\ cpc = "returned"
        /\ pass_check <=> outputs # EmptyDict

\* one VPC, three tagged subnets in it and three tagged running instances in
\* those subnets, named by the outputs and reported by the control plane,
\* with vpc_count 1, subnet_count 3 and instance_count 3 expected
C20_Scenario ==
    /\ task_id = "task_vpc_3subnets_3ec2"
    /\ cpc = "returned"
    /\ OutputValue(outputs, "vpc_id") = VpcId
    /\ Get(outputs, "subnet_ids", <<>>) = SubnetNames
    /\ expected_checks =
           Put(Put(Put(EmptyDict, "vpc_count", 1), "subnet_count", 3),
               "instance_count", 3)
    /\ DOMAIN replies =
           {"vpc.describe_vpcs", "vpc.describe_subnets", "vpc.describe_instances"}
    /\ \A q \in DOMAIN replies : replies[q].kind = "ok"
    /\ replies["vpc.describe_vpcs"].data = 1
    /\ replies["vpc.describe_subnets"].data = <<VpcId, VpcId, VpcId>>
    /\ Len(replies["vpc.describe_instances"].data) = 3
    /\ Range(replies["vpc.describe_instances"].data) \subseteq Range(SubnetNames)

\* C20: in that scenario the VPC checker returns pass true, the counts
\* vpc 1, subnet 3, instance 3, both wirings true and no errors.
C20_VpcScenarioPasses ==
    C20_Scenario =>
        /\ pass_check
        /\ counts = Put(Put(Put(EmptyDict, "vpc", 1), "subnet", 3), "instance", 3)
        /\ wiring = Put(Put(EmptyDict, "subnets_in_vpc", TRUE),
                        "instances_in_subnets", TRUE)
        /\ errors = <<>>

C20_Witness ==
    /\ C20_Scenario
    /\ pass_check
    /\ check_json
    /\ Cardinality(Range(replies["vpc.describe_instances"].data)) < 3

\* the versioning status was reported, and it is not 'Enabled'
C21_NotEnabled ==
    /\ StartsWithTaskS3(task_id)
    /\ "s3.get_bucket_versioning" \in DOMAIN replies
    /\ replies["s3.get_bucket_versioning"].kind = "ok"
    /\ replies["s3.get_bucket_versioning"].data # "Enabled"

\* C21: once the S3 checker has seen, with versioning_enabled expected, a
\* versioning status other than 'Enabled', pass is false and the errors hold
\* a message with the observed status, up to and including the return.
C21_VersioningNotEnabledFails ==
    C21_NotEnabled =>
        /\ ~pass_check
        /\ \E k \in 1 .. Len(errors) :
               errors[k] = "Versioning not enabled: "
                             \o replies["s3.get_bucket_versioning"].data

C21_Witness ==
    /\ C21_NotEnabled
    /\ TruthyFlag(expected_checks, "versioning_enabled")
    /\ replies["s3.head_bucket"].kind = "ok"
    /\ replies["s3.get_bucket_versioning"].data = "Suspended"
    /\ cpc = "returned"
    /\ ~pass_check

\* C22: an entry of the wiring map is true only if the relation it names
\* held in the data the control plane returned.
C22_WiringReflectsOutcome ==
    /\ ("subnets_in_vpc" \in DOMAIN wiring /\ wiring["subnets_in_vpc"]) =>
           \A k \in 1 .. Len(replies["vpc.describe_subnets"].data) :
               replies["vpc.describe_subnets"].data[k] = OutputValue(outputs, "vpc_id")
    /\ ("instances_in_subnets" \in DOMAIN wiring /\ wiring["instances_in_subnets"]) =>
           Range(replies["vpc.describe_instances"].data)
             \subseteq Range(Get(outputs, "subnet_ids", <<>>))
    /\ ("security_group_in_vpc" \in DOMAIN wiring /\ wiring["security_group_in_vpc"]) =>
           replies["sg.describe_security_groups"].data[1].VpcId
             = OutputValue(outputs, "vpc_id")

----------------------------------------------------------------------------
(* terraform_generator.py: TerraformGenerator.extract_code_blocks and
   TerraformGenerator.generate.

   A response is a sequence of lines.  A line is [kind, arg]: a fence
   (``` followed by arg), a bold header (**arg**), a header (## arg), a line
   of code, of prose or of a comment (arg is the line), or an empty line.
   The content of a file is a sequence of lines as well.  The regular
   expressions of the source are defined by the matches they have in such a
   sequence. *)

\* len(content) of a file below which generate rejects it
MinLength == 50

Fence(tag) == [kind |-> "fence", arg |-> tag]

Bold(name) == [kind |-> "bold", arg |-> name]

Header(name) == [kind |-> "head", arg |-> name]

Code(text) == [kind |-> "code", arg |-> text]

Comment(text) == [kind |-> "comment", arg |-> text]

Prose == [kind |-> "prose", arg |-> "Here is the configuration you asked for."]

EmptyLine == [kind |-> "empty", arg |-> ""]

\* len of the text of a line: a fence is three backquotes and its tag, a bold
\* header is its name between two pairs of stars, a header is "## " and its
\* name
LineLen(l) ==
    CASE l.kind = "fence" -> 3 + Len(l.arg)
      [] l.kind = "bold" -> 4 + Len(l.arg)
      [] l.kind = "head" -> 3 + Len(l.arg)
      [] OTHER -> Len(l.arg)

\* len of the text of the lines, joined by newlines
RECURSIVE Length(_)
Length(lines) ==
    IF lines = <<>> THEN 0
    ELSE IF Len(lines) = 1 THEN LineLen(lines[1])
    ELSE LineLen(lines[1]) + 1 + Length(Tail(lines))

\* str.strip() of the text of lines
RECURSIVE Strip(_)
Strip(lines) ==
    IF lines = <<>> THEN <<>>
    ELSE IF Head(lines).kind = "empty" THEN Strip(Tail(lines))
    ELSE IF lines[Len(lines)].kind = "empty"
    THEN Strip(SubSeq(lines, 1, Len(lines) - 1))
    ELSE lines

\* the file names of the responses: what (\w+\.tf) matches, ignoring case
FileNames == {"main.tf", "variables.tf", "outputs.tf", "network.tf", "Main.tf"}

\* str.lower() of a file name
LowerName(name) == IF name = "Main.tf" THEN "main.tf" ELSE name

\* Lines 144, 212: required
RequiredFiles == <<"main.tf", "variables.tf", "outputs.tf">>

\* match.group(1) of a match without a file name
NoName == ""

\* the first fence at or after line i, or 0
NextFence(lines, i) ==
    LET later == {j \in i .. Len(lines) : lines[j].kind = "fence"} IN
    IF later = {} THEN 0 ELSE CHOOSE j \in later : \A k \in later : j <= k

\* the first bold header at or after line i, or the end of the response
NextBold(lines, i) ==
    LET later == {j \in i .. Len(lines) : lines[j].kind = "bold"} IN
    IF later = {} THEN Len(lines) + 1
    ELSE CHOOSE j \in later : \A k \in later : j <= k

\* a match: the line it starts at, its file name and its code
Match(i, name, code) == [at |-> i, name |-> name, code |-> code]

\* files[name] = code, by the strategy named
Insertion(strategy, m, name, code) ==
    [strategy |-> strategy, at |-> m.at, name |-> name, code |-> code]

\* the files after the assignments ins, made in their order
RECURSIVE Assign(_, _)
Assign(fs, ins) ==
    IF ins = <<>> THEN fs
    ELSE Assign(Put(fs, Head(ins).name, Head(ins).code), Tail(ins))

\* Lines 47-52: the matches of pattern1 from line i on, an opening fence
\* (with a file name, terraform, hcl or nothing) up to the next fence.
RECURSIVE Pattern1(_, _)
Pattern1(lines, i) ==
    IF i > Len(lines) THEN <<>>
    ELSE IF lines[i].kind = "fence" /\ i < Len(lines) THEN
        LET j == NextFence(lines, i + 1) IN
        IF j = 0 THEN <<>>
        ELSE <<Match(i, IF lines[i].arg \in FileNames THEN lines[i].arg ELSE NoName,
                     Strip(SubSeq(lines, i + 1, j - 1)))>>
               \o Pattern1(lines, j + 1)
    ELSE Pattern1(lines, i + 1)

\* AssumeMain, asking only that main.tf has not been assigned
AssumeMainIfUnassigned(code, fs) == code # <<>> /\ "main.tf" \notin DOMAIN fs

\* Line 58: `elif code and not files`
AssumeMain(code, fs) == code # <<>> /\ DOMAIN fs = {}

\* Lines 50-59: the assignments of method 1 for the matches, given the files
\* so far.  (Every file name of FileNames ends with .tf, lines 55-56.)
RECURSIVE Method1(_, _)
Method1(matches, fs) ==
    IF matches = <<>> THEN <<>>
    ELSE LET m == Head(matches)
             ins == IF m.name # NoName
                    THEN <<Insertion("method1", m, m.name, m.code)>>
                    ELSE IF AssumeMain(m.code, fs)
                    THEN <<Insertion("method1", m, "main.tf", m.code)>>
                    ELSE <<>>
         IN ins \o Method1(Tail(matches), Assign(fs, ins))

\* ```(?:terraform|hcl)?\s*\n
PlainFence(l) == l.kind = "fence" /\ l.arg \in {"", "terraform", "hcl"}

\* Lines 67, 100: the matches of a header of the kind given, followed by a
\* plain fence and the code up to the next fence, from line i on.
RECURSIVE HeaderBlocks(_, _, _)
HeaderBlocks(lines, i, kind) ==
    IF i > Len(lines) THEN <<>>
    ELSE IF lines[i].kind = kind /\ i < Len(lines) /\ PlainFence(lines[i + 1]) THEN
        LET j == NextFence(lines, i + 2) IN
        IF j = 0 THEN HeaderBlocks(lines, i + 1, kind)
        ELSE <<Match(i, lines[i].arg, Strip(SubSeq(lines, i + 2, j - 1)))>>
               \o HeaderBlocks(lines, j + 1, kind)
    ELSE HeaderBlocks(lines, i + 1, kind)

\* Line 68: the matches of a bold header followed by everything up to the
\* next bold header or the end of the response, from line i on.
RECURSIVE BoldSections(_, _)
BoldSections(lines, i) ==
    IF i > Len(lines) THEN <<>>
    ELSE IF lines[i].kind = "bold" /\ i < Len(lines) THEN
        LET k == NextBold(lines, i + 2) IN
        <<Match(i, lines[i].arg, Strip(SubSeq(lines, i + 1, k - 1)))>>
          \o BoldSections(lines, k)
    ELSE BoldSections(lines, i + 1)

\* Line 112: the matches of a header followed by the rest of the response up
\* to `$`, which with re.MULTILINE is the end of the next line.
RECURSIVE HeaderLines(_, _)
HeaderLines(lines, i) ==
    IF i > Len(lines) THEN <<>>
    ELSE IF lines[i].kind = "head" /\ i < Len(lines) THEN
        <<Match(i, lines[i].arg, Strip(<<lines[i + 1]>>))>>
          \o HeaderLines(lines, i + 2)
    ELSE HeaderLines(lines, i + 1)

\* Lines 83-84, 120-121, 159-160, 233-234: the two re.sub calls that remove
\* code block markers: every fence line but the last line, and a last line
\* that is a bare fence.
CleanFences(code) ==
    LET kept == SelectSeq([k \in 1 .. Len(code) |-> [k |-> k, l |-> code[k]]],
                          LAMBDA e : ~(e.l.kind = "fence" /\ e.k < Len(code)))
        rest == [k \in 1 .. Len(kept) |-> kept[k].l]
    IN IF Len(rest) >= 2 /\ rest[Len(rest)] = Fence("")
       THEN SubSeq(rest, 1, Len(rest) - 1) ELSE rest

\* Lines 85-87: the bold markers are removed
CleanBold(code) ==
    [k \in 1 .. Len(code) |-> IF code[k].kind = "bold" THEN EmptyLine ELSE code[k]]

\* Lines 79, 245: re.match(r'^\*\*\w+\.tf\*\*$', code.strip())
HeaderOnly(code) == Len(Strip(code)) = 1 /\ Strip(code)[1].kind = "bold"

\* Lines 74-91: the assignments for the matches of a bold pattern.
RECURSIVE BoldInsertions(_)
BoldInsertions(matches) ==
    IF matches = <<>> THEN <<>>
    ELSE LET m == Head(matches)
             code == CleanBold(CleanFences(m.code)) IN
         (IF ~HeaderOnly(m.code) /\ Length(code) > 20
          THEN <<Insertion("method2", m, LowerName(m.name), code)>> ELSE <<>>)
           \o BoldInsertions(Tail(matches))

\* Lines 66-94: method 2, the two bold patterns.
Method2(lines, fs) ==
    LET first == BoldInsertions(HeaderBlocks(lines, 1, "bold")) IN
    IF Cardinality(DOMAIN Assign(fs, first)) >= 3 THEN first
    ELSE first \o BoldInsertions(BoldSections(lines, 1))

\* Lines 103-108 and 115-124: the assignments for the matches of a pattern
\* of method 2b; clean says whether the code block markers are removed.
RECURSIVE HeaderInsertions(_, _)
HeaderInsertions(matches, clean) ==
    IF matches = <<>> THEN <<>>
    ELSE LET m == Head(matches)
             code == IF clean THEN CleanFences(m.code) ELSE m.code IN
         (IF Length(code) > 20
          THEN <<Insertion("method2b", m, LowerName(m.name), code)>> ELSE <<>>)
           \o HeaderInsertions(Tail(matches), clean)

\* Lines 99-124: method 2b, the two file header patterns.
Method2b(lines, fs) ==
    LET first == HeaderInsertions(HeaderBlocks(lines, 1, "head"), FALSE) IN
    IF Cardinality(DOMAIN Assign(fs, first)) >= 3 THEN first
    ELSE first \o HeaderInsertions(HeaderLines(lines, 1), TRUE)

\* Lines 129-141: method 3 from the section that starts at line s on.  The
\* response is split before every fence that is not its first line; a
\* section with a file name in its first line becomes a file.
RECURSIVE Method3(_, _)
Method3(lines, s) ==
    IF s > Len(lines) THEN <<>>
    ELSE LET f == NextFence(lines, s + 1)
             e == IF f = 0 THEN Len(lines) ELSE f - 1
             named == \/ lines[s].kind \in {"bold", "head"}
                      \/ lines[s].kind = "fence" /\ lines[s].arg \in FileNames
             code == Strip(SubSeq(lines, s + 1, e))
         IN (IF named /\ Length(code) > 10
             THEN <<Insertion("method3", Match(s, lines[s].arg, code),
                              LowerName(lines[s].arg), code)>>
             ELSE <<>>)
              \o Method3(lines, e + 1)

\* Lines 154-162 and 223, 229-236: the first line that ends with the file
\* name and is not the last line, and everything after it, as the content
\* of the file when it is longer than minlen.  (No line of a response starts
\* with a file name, so the match reaches the end of the response.)
TailSearch(strategy, lines, filename, minlen) ==
    LET named == {i \in 1 .. Len(lines) - 1 :
                     /\ lines[i].kind \in {"fence", "head"}
                     /\ lines[i].arg \in FileNames
                     /\ LowerName(lines[i].arg) = filename}
    IN IF named = {} THEN <<>>
       ELSE LET i == CHOOSE j \in named : \A k \in named : j <= k
                code == CleanFences(Strip(SubSeq(lines, i + 1, Len(lines))))
            IN IF Length(code) > minlen
               THEN <<Insertion(strategy, Match(i, filename, code), filename, code)>>
               ELSE <<>>

\* the required files that fs does not have, in the order of RequiredFiles
Missing(fs) == SelectSeq(RequiredFiles, LAMBDA f : f \notin DOMAIN fs)

\* the assignments of TailSearch for each of the file names
RECURSIVE SearchAll(_, _, _, _)
SearchAll(strategy, lines, filenames, minlen) ==
    IF filenames = <<>> THEN <<>>
    ELSE TailSearch(strategy, lines, Head(filenames), minlen)
           \o SearchAll(strategy, lines, Tail(filenames), minlen)

\* Lines 143-162: method 4.
Method4(lines, fs) == SearchAll("method4", lines, Missing(fs), 10)

\* Lines 213-238: the last resort of generate.  (Its patterns for
\* '#<filename>' and 'File: <filename>' match no line of a response.)
LastResort(lines, fs) == SearchAll("fallback", lines, Missing(fs), 20)

\* the lines of code and of comment the responses are made of
ResourceLine == Code("resource aws_s3_bucket b { }")

VariableLine == Code("variable region { default = 1 }")

RetryLine == Code("# Retry failed requests")

\* the bodies of the sections of a response: two of at least MinLength
\* characters, a short one, and one that begins with a comment line
LongBody == <<ResourceLine, VariableLine>>

OtherBody == <<VariableLine, ResourceLine>>

ShortBody == <<ResourceLine>>

CommentedBody == <<RetryLine, ResourceLine, VariableLine>>

\* a fenced block: ```tag, the body, ```
Fenced(tag, body) == <<Fence(tag)>> \o body \o <<Fence("")>>

\* **name** followed by the body
BoldSection(name, body) == <<Bold(name)>> \o body

\* **name** followed by a fenced block
BoldFenced(name, body) == <<Bold(name)>> \o Fenced("hcl", body)

\* ## name followed by the body
HeaderSection(name, body) == <<Header(name)>> \o body

\* the sections a response is made of
Sections ==
    {Fenced("main.tf", LongBody), Fenced("variables.tf", LongBody),
     Fenced("variables.tf", ShortBody), Fenced("outputs.tf", LongBody),
     Fenced("outputs.tf", CommentedBody), Fenced("network.tf", LongBody),
     Fenced("network.tf", ShortBody), Fenced("network.tf", CommentedBody),
     Fenced("Main.tf", LongBody),
     Fenced("terraform", OtherBody), BoldSection("variables.tf", OtherBody),
     BoldFenced("outputs.tf", OtherBody), HeaderSection("variables.tf", OtherBody),
     <<Prose>>}

\* the responses of at most n sections
RECURSIVE ResponsesOf(_)
ResponsesOf(n) ==
    IF n = 0 THEN {<<>>}
    ELSE LET shorter == ResponsesOf(n - 1) IN
         shorter \cup {r \o s : r \in shorter, s \in Sections}

Responses == ResponsesOf(MaxSections)

\* the tasks code is generated for
GenTaskIds == {"task_s3_basic", "task_vpc_basic"}

\* Lines 194-196: debug / task_id / llm_response_{task_id}.txt
RawResponseFile(task) == <<"debug", task, "llm_response_" \o task \o ".txt">>

\* the path of a file, its pieces joined by "/"
RECURSIVE PathText(_)
PathText(path) ==
    IF Len(path) = 1 THEN path[1] ELSE path[1] \o "/" \o PathText(Tail(path))

\* Line 255, its second line: the content records that generation failed
FailureNote == Comment("# Code generation failed - placeholder file")

\* Line 255, its third line: where the raw response is
RawResponseNote(task) ==
    Comment("# Check debug/" \o task \o "/llm_response_" \o task
              \o ".txt for raw LLM response")

\* Placeholder, with nothing but the name of the file
PlaceholderBare(filename, task) == <<Comment("# " \o filename)>>

\* Line 255: the content of the placeholder of a file
Placeholder(filename, task) ==
    <<Comment("# " \o filename), FailureNote, RawResponseNote(task)>>

\* `word in content.lower()`, for the words generate looks for
Mentions(content, word) ==
    \E k \in 1 .. Len(content) :
        \/ content[k] = RetryLine /\ word = "failed"
        \/ content[k] = FailureNote /\ word \in {"failed", "placeholder"}

\* content.strip().startswith('#')
StartsWithHash(content) ==
    /\ Strip(content) # <<>>
    /\ \/ Strip(content)[1].kind \in {"head", "comment"}
       \/ Strip(content)[1] = RetryLine

\* Rejected, without the test of the length
RejectedUnlessShort(content) ==
    \/ HeaderOnly(content)
    \/ StartsWithHash(content) /\ Mentions(content, "placeholder")
    \/ StartsWithHash(content) /\ Mentions(content, "failed")

\* Lines 244-247: the condition under which generate rejects a file
Rejected(content) ==
    \/ Length(content) < MinLength
    \/ HeaderOnly(content)
    \/ StartsWithHash(content) /\ Mentions(content, "placeholder")
    \/ StartsWithHash(content) /\ Mentions(content, "failed")

\* Lines 241-249: the files that are kept
Validated(fs) == [f \in {g \in DOMAIN fs : ~Rejected(fs[g])} |-> fs[f]]

\* Lines 252-255: every required file that is missing gets its placeholder
WithPlaceholders(fs, task) ==
    [f \in DOMAIN fs \cup {"main.tf", "variables.tf", "outputs.tf"} |->
        IF f \in DOMAIN fs THEN fs[f] ELSE Placeholder(f, task)]

\* the names of the extraction strategies, in the order they are tried
Strategies == <<"method1", "method2", "method2b", "method3", "method4">>

\* len(files): the number of files recovered
Recovered(fs) == Cardinality(DOMAIN fs)

\* a strategy was or was not attempted with the files fs
Attempt(ran, fs) == [ran |-> ran, before |-> DOMAIN fs]

\* a step of extract_code_blocks: the strategy makes the assignments ins and
\* the next step is at next
ExtractStep(strategy, ran, ins, next) ==
    /\ files' = Assign(files, ins)
    /\ inserted' = inserted \o ins
    /\ attempts' = Put(attempts, strategy, Attempt(ran, files))
    /\ gpc' = next
    /\ UNCHANGED <<gen_task, response, extracted, debug_files, runVars,
                   suiteVars, checkVars, benchVars>>

\* Lines 184-206: the model client returns the response, which is saved.
\* (Both callers pass save_raw_response=True: benchmark.py:85 and the
\* default, benchmark_cli.py:127.)
SaveRawResponse ==
    /\ gpc = "start"
    /\ debug_files' = debug_files \cup {RawResponseFile(gen_task)}
    /\ gpc' = "method1"
    /\ UNCHANGED <<gen_task, response, files, inserted, attempts, extracted,
                   runVars, suiteVars, checkVars, benchVars>>

\* Lines 45-59: method 1, explicit filename markers.
ExtractMethod1 ==
    /\ gpc = "method1"
    /\ ExtractStep("method1", TRUE, Method1(Pattern1(response, 1), files), "method2")

\* Lines 61-94: method 2, bold headers.
ExtractMethod2 ==
    /\ gpc = "method2"
    /\ IF Recovered(files) < 3
       THEN ExtractStep("method2", TRUE, Method2(response, files), "method2b")
       ELSE ExtractStep("method2", FALSE, <<>>, "method2b")

\* Lines 96-124: method 2b, file headers.
ExtractMethod2b ==
    /\ gpc = "method2b"
    /\ IF Recovered(files) < 3
       THEN ExtractStep("method2b", TRUE, Method2b(response, files), "method3")
       ELSE ExtractStep("method2b", FALSE, <<>>, "method3")

\* Lines 126-141: method 3, split by separators.
ExtractMethod3 ==
    /\ gpc = "method3"
    /\ IF Recovered(files) < 3
       THEN ExtractStep("method3", TRUE, Method3(response, 1), "method4")
       ELSE ExtractStep("method3", FALSE, <<>>, "method4")

\* Lines 143-165: method 4, the last resort of extract_code_blocks, and its
\* return.
ExtractMethod4 ==
    /\ gpc = "method4"
    /\ ExtractStep("method4", Missing(files) # <<>>, Method4(response, files),
                   "fallback")

\* Lines 209-238: generate looks for the files still missing.
GenerateFallback ==
    /\ gpc = "fallback"
    /\ files' = Assign(files, LastResort(response, files))
    /\ inserted' = inserted \o LastResort(response, files)
    /\ extracted' = Assign(files, LastResort(response, files))
    /\ gpc' = "validate"
    /\ UNCHANGED <<gen_task, response, attempts, debug_files, runVars,
                   suiteVars, checkVars, benchVars>>

\* Lines 240-249: the files that are headers or placeholders are rejected.
GenerateValidate ==
    /\ gpc = "validate"
    /\ files' = Validated(files)
    /\ gpc' = "final"
    /\ UNCHANGED <<gen_task, response, inserted, attempts, extracted,
                   debug_files, runVars, suiteVars, checkVars, benchVars>>

\* Lines 251-266: the placeholders of the missing files, and the return.
GenerateReturn ==
    /\ gpc = "final"
    /\ files' = WithPlaceholders(files, gen_task)
    /\ gpc' = "returned"
    /\ UNCHANGED <<gen_task, response, inserted, attempts, extracted,
                   debug_files, runVars, suiteVars, checkVars, benchVars>>

\* the state before generate is called
GenerateInit ==
    /\ gpc = "start"
    /\ gen_task \in GenTaskIds
    /\ response \in Responses
    /\ files = EmptyDict
    /\ inserted = <<>>
    /\ attempts = EmptyDict
    /\ extracted = EmptyDict
    /\ debug_files = {}
    /\ RunIdle
    /\ SuiteIdle
    /\ ChecksIdle
    /\ BenchIdle

GenerateNext ==
    \/ SaveRawResponse
    \/ ExtractMethod1
    \/ ExtractMethod2
    \/ ExtractMethod2b
    \/ ExtractMethod3
    \/ ExtractMethod4
    \/ GenerateFallback
    \/ GenerateValidate
    \/ GenerateReturn

SpecGenerate == GenerateInit /\ [][GenerateNext]_vars

----------------------------------------------------------------------------
(* BenchmarkRunner.run_single_benchmark (benchmark.py) *)

\* the jobs run_single_benchmark is called with
BenchJobs ==
    [provider : Providers, model : ModelIds,
     task_id : {TaskUniverse[1], TaskUniverse[2]}]

\* the values of the argument run_id
RunIdArgs == {NoRunId, "nightly"}

\* what TaskRunner.run returns: pass without a category and with
\* timings["total"], or a failure with its category (run_task.py:138-387)
TerraformResults ==
    {[pass |-> TRUE, failure_category |-> NoCategory, timings |-> Put(EmptyDict, "total", 1)]}
    \cup {[pass |-> FALSE, failure_category |-> c, timings |-> EmptyDict] :
            c \in FAILURE_CATEGORIES}

\* the messages of the exceptions raised inside the try block
PromptNotFound == "Prompt file not found"
ClientError == "client error"
SaveFilesError == "generated files not written"
SpecNotFound == "Task spec not found"
PipelineError == "pipeline error"
CheckFileError == "check.json not read"

\* Line 144: results_dir / model_name / task_id / run_id / benchmark_result.json
ResultFile ==
    <<"results", ModelName(bench_job.provider, bench_job.model),
      bench_job.task_id, run_id, "benchmark_result.json">>

\* result["steps"][name] = record
WithStep(r, name, record) == Put(r, "steps", Put(r["steps"], name, record))

\* An except block that records the error only: it sets neither overall_pass
\* nor steps["generation"].
ExceptKeepsSteps(e) ==
    /\ result' = Put(result, "error", e)
    /\ bpc' = "save"

\* Lines 134-141: except Exception as e.
Except(e) ==
    /\ result' = WithStep(Put(Put(result, "overall_pass", FALSE), "error", e),
                          "generation", [success |-> FALSE, error |-> e])
    /\ bpc' = "save"

\* Lines 48-64: the run id, the model name and the result dictionary.
BenchStart ==
    /\ bpc = "start"
    /\ \E second \in 0 .. MaxSecond :
         /\ run_id' = IF run_id = NoRunId THEN RunId(second) ELSE run_id
         /\ result' = [provider |-> bench_job.provider,
                       model |-> bench_job.model,
                       model_name |-> ModelName(bench_job.provider, bench_job.model),
                       task_id |-> bench_job.task_id,
                       run_id |-> run_id',
                       timestamp |-> second,
                       steps |-> EmptyDict]
    /\ bpc' = "prompt"
    /\ UNCHANGED <<bench_job, terraform_result, written, collectVars,
                   runVars, suiteVars, checkVars, genVars>>

\* Lines 67-77: the prompt of the task is read, or FileNotFoundError.
LoadPrompt ==
    /\ bpc = "prompt"
    /\ \E exists \in BOOLEAN :
         IF exists
         THEN bpc' = "generate" /\ UNCHANGED result
         ELSE Except(PromptNotFound)
    /\ UNCHANGED <<bench_job, run_id, terraform_result, written, collectVars,
                   runVars, suiteVars, checkVars, genVars>>

\* Lines 80-92: the client is created and the files are generated, either of
\* which may raise (llm_client.py:63, 480); steps["generation"] is recorded.
Generate ==
    /\ bpc = "generate"
    /\ \E raised \in BOOLEAN :
         IF raised
         THEN Except(ClientError)
         ELSE /\ result' = WithStep(result, "generation",
                                    [success |-> TRUE, time |-> 1,
                                     prompt_file |-> <<"tasks", bench_job.task_id, "prompt.txt">>])
              /\ bpc' = "save_files"
    /\ UNCHANGED <<bench_job, run_id, terraform_result, written, collectVars,
                   runVars, suiteVars, checkVars, genVars>>

\* Lines 95-98: the generated files are written under work_dir
\* (terraform_generator.py:268-280), or the file system raises.
SaveFiles ==
    /\ bpc = "save_files"
    /\ \E raised \in BOOLEAN :
         IF raised
         THEN Except(SaveFilesError)
         ELSE bpc' = "runner" /\ UNCHANGED result
    /\ UNCHANGED <<bench_job, run_id, terraform_result, written, collectVars,
                   runVars, suiteVars, checkVars, genVars>>

\* Lines 102-108: TaskRunner(...), which raises FileNotFoundError when the
\* task has no spec.yaml (run_task.py:52-56).
CreateRunner ==
    /\ bpc = "runner"
    /\ \E spec_file_exists \in BOOLEAN :
         IF spec_file_exists
         THEN bpc' = "run" /\ UNCHANGED result
         ELSE Except(SpecNotFound)
    /\ UNCHANGED <<bench_job, run_id, terraform_result, written, collectVars,
                   runVars, suiteVars, checkVars, genVars>>

\* Lines 110-118: runner.run() returns and steps["terraform"] is recorded, or
\* run raises (it writes its files outside any try, run_task.py:248-373).
RunPipeline ==
    /\ bpc = "run"
    /\ \/ \E tr \in TerraformResults :
            /\ terraform_result' = tr
            /\ result' = WithStep(result, "terraform",
                                  [success |-> tr.pass,
                                   failure_category |-> tr.failure_category,
                                   timings |-> tr.timings])
            /\ bpc' = "checks"
       \/ Except(PipelineError) /\ UNCHANGED terraform_result
    /\ UNCHANGED <<bench_job, run_id, written, collectVars,
                   runVars, suiteVars, checkVars, genVars>>

\* Lines 121-132: check.json is read if it exists, which may raise; then
\* overall_pass and total_time are set.
ReadChecks ==
    /\ bpc = "checks"
    /\ \E check_file \in {"absent", "read", "unreadable"} :
         IF check_file = "unreadable"
         THEN Except(CheckFileError)
         ELSE LET r == IF check_file = "read"
                       THEN WithStep(result, "checks", [pass |-> terraform_result.pass])
                       ELSE result
              IN /\ result' =
                      Put(Put(r, "overall_pass", terraform_result.pass),
                          "total_time",
                          Get(Get(r["steps"], "generation", EmptyDict), "time", 0)
                          + Get(r["steps"]["terraform"].timings, "total", 0))
                 /\ bpc' = "save"
    /\ UNCHANGED <<bench_job, run_id, terraform_result, written, collectVars,
                   runVars, suiteVars, checkVars, genVars>>

\* Lines 144-149: benchmark_result.json is written and result returned.
SaveResult ==
    /\ bpc = "save"
    /\ written' = Append(written, [file |-> ResultFile, result |-> result])
    /\ bpc' = "returned"
    /\ UNCHANGED <<bench_job, run_id, result, terraform_result, collectVars,
                   runVars, suiteVars, checkVars, genVars>>

BenchInit ==
    /\ bpc = "start"
    /\ bench_job \in BenchJobs
    /\ run_id \in RunIdArgs
    /\ result = EmptyDict
    /\ terraform_result = EmptyDict
    /\ written = <<>>
    /\ CollectIdle
    /\ RunIdle
    /\ SuiteIdle
    /\ ChecksIdle
    /\ GenIdle

BenchNext ==
    \/ BenchStart
    \/ LoadPrompt
    \/ Generate
    \/ SaveFiles
    \/ CreateRunner
    \/ RunPipeline
    \/ ReadChecks
    \/ SaveResult

SpecBenchmark == BenchInit /\ [][BenchNext]_vars

----------------------------------------------------------------------------
(* run_benchmark_suite: the futures and the results list (benchmark.py) *)

\* the lists of model configurations of a suite whose results are collected
SubmittedModels ==
    LET a == [provider |-> "openai", model |-> <<"gpt", "-", "4">>]
        b == [provider |-> "anthropic", model |-> <<"gpt", "_", "4">>]
    IN {<<a>>, <<a, b>>}

\* the task ids of a suite whose results are collected
SubmittedTasks ==
    <<"task_s3_basic", "task_iam_role_policy", "task_vpc_nat_gateway",
      "task_vpc_multiple_route_tables", "task_security_group_complex",
      "task_vpc_3subnets_3ec2">>

\* the lists of task ids that give a list of models at most MaxJobs jobs
SubmittedTaskLists(models) ==
    {SubSeq(SubmittedTasks, 1, n) :
        n \in 1 .. Min(MaxJobs \div Len(models), Len(SubmittedTasks))}

\* the sizes of the thread pool
PoolSizes == {1, 2}

\* how a call of run_single_benchmark in a worker ends: it returns its result
\* (lines 56-149), or it raises (the write of lines 144-147 is outside the try)
JobOutcomes == {"passed", "failed", "raised"}

Pending == {f \in DOMAIN futures : futures[f].state = "pending"}

InWorker == {f \in DOMAIN futures : futures[f].state = "running"}

Finished == {f \in DOMAIN futures : futures[f].state = "finished"}

Yielded == {f \in DOMAIN futures : futures[f].state = "yielded"}

\* Line 203: future.result() of a future whose call returned
ResultOf(f) ==
    [provider |-> future_to_job[f].provider, model |-> future_to_job[f].model,
     task_id |-> future_to_job[f].task_id,
     overall_pass |-> futures[f].outcome = "passed"]

\* Lines 209-215: the entry of a future whose call raised
ErrorEntry(f) ==
    [provider |-> future_to_job[f].provider, model |-> future_to_job[f].model,
     task_id |-> future_to_job[f].task_id,
     overall_pass |-> FALSE, error |-> "raised"]

\* A collection that logs a raising job and appends nothing for it.
EntriesOfReturned(f) ==
    IF futures[f].outcome = "raised" THEN <<>> ELSE <<ResultOf(f)>>

\* Lines 202-215: what the loop appends for future f
Entries(f) ==
    IF futures[f].outcome = "raised" THEN <<ErrorEntry(f)>> ELSE <<ResultOf(f)>>

\* Lines 168-196: the jobs are listed, model by model, and all submitted.
SubmitJobs ==
    /\ kpc = "start"
    /\ \E models \in SubmittedModels, size \in PoolSizes :
       \E task_ids \in SubmittedTaskLists(models) :
         /\ future_to_job' = JobsOf(models, task_ids)
         /\ futures' = [f \in DOMAIN future_to_job' |->
                            [state |-> "pending", outcome |-> "none"]]
         /\ pool_size' = size
    /\ suite_results' = <<>>
    /\ kpc' = "collect"
    /\ UNCHANGED <<singleVars, runVars, suiteVars, checkVars, genVars>>

\* Line 190: a free worker of the pool takes the oldest pending future.
WorkerTakes ==
    /\ kpc = "collect"
    /\ Pending # {}
    /\ Cardinality(InWorker) < pool_size
    /\ LET f == CHOOSE g \in Pending : \A h \in Pending : g <= h
       IN futures' = [futures EXCEPT ![f].state = "running"]
    /\ UNCHANGED <<kpc, future_to_job, pool_size, suite_results,
                   singleVars, runVars, suiteVars, checkVars, genVars>>

\* Lines 192-195: the call of run_single_benchmark of a worker returns or
\* raises.
WorkerFinishes ==
    /\ kpc = "collect"
    /\ \E f \in InWorker, oc \in JobOutcomes :
         futures' = [futures EXCEPT ![f] = [state |-> "finished", outcome |-> oc]]
    /\ UNCHANGED <<kpc, future_to_job, pool_size, suite_results,
                   singleVars, runVars, suiteVars, checkVars, genVars>>

\* Lines 199-215: one iteration of the loop over as_completed, which yields
\* every finished future once.
CollectResult ==
    /\ kpc = "collect"
    /\ \E f \in Finished :
         /\ futures' = [futures EXCEPT ![f].state = "yielded"]
         /\ suite_results' = suite_results \o Entries(f)
    /\ UNCHANGED <<kpc, future_to_job, pool_size,
                   singleVars, runVars, suiteVars, checkVars, genVars>>

\* Lines 216-223: as_completed is exhausted; the suite is saved and returned.
SuiteReturn ==
    /\ kpc = "collect"
    /\ Yielded = DOMAIN futures
    /\ kpc' = "returned"
    /\ UNCHANGED <<future_to_job, futures, pool_size, suite_results,
                   singleVars, runVars, suiteVars, checkVars, genVars>>

CollectInit ==
    /\ kpc = "start"
    /\ future_to_job = <<>>
    /\ futures = <<>>
    /\ pool_size = 0
    /\ suite_results = <<>>
    /\ SingleIdle
    /\ RunIdle
    /\ SuiteIdle
    /\ ChecksIdle
    /\ GenIdle

CollectNext ==
    \/ SubmitJobs
    \/ WorkerTakes
    \/ WorkerFinishes
    \/ CollectResult
    \/ SuiteReturn

SpecCollect == CollectInit /\ [][CollectNext]_vars

----------------------------------------------------------------------------
(* Properties of TaskRunner.run *)

\* The stages of the pipeline, in the order the design gives them.
Stages ==
    <<"fmt", "fmt_check", "init", "validate", "plan", "apply", "checks",
      "plan_2", "destroy">>

\* The failure category of each stage.
Category(s) ==
    CASE s \in {"fmt", "fmt_check"} -> "SYNTAX"
      [] s = "init" -> "INIT"
      [] s = "validate" -> "VALIDATE"
      [] s = "plan" -> "PLAN"
      [] s = "apply" -> "APPLY"
      [] s = "checks" -> "CHECKS"
      [] s = "plan_2" -> "IDEMPOTENCY"
      [] OTHER -> "DESTROY"

\* the command of step s has been run
Ran(s) == \E i \in 1 .. Len(executed) : executed[i] = s

\* the command of step s was the last one run
RanLast(s) == Len(executed) > 0 /\ executed[Len(executed)] = s

\* step s has been run and it succeeded: exit code 0 for a terraform command,
\* a passing result for the checks
Succeeded(s) ==
    /\ Ran(s)
    /\ IF s = "checks"
       THEN check_result = {[pass |-> TRUE]}
       ELSE s \in DOMAIN tool_exit_codes /\ tool_exit_codes[s] = 0

\* the steps of run that are stages, in the order they were run
StagesRun == SelectSeq(executed, LAMBDA s : s # "output")

IsPrefix(p, q) == Len(p) <= Len(q) /\ p = SubSeq(q, 1, Len(p))

\* the zero-change marker of a plan
HasMarker(out) == Contains(NoChanges, out) \/ Contains(ZeroSummary, out)

\* C1: the stages run in the fixed order, and stage k+1 is run and recorded
\* only if stage k succeeded; in particular apply is never run when validate
\* did not succeed.
C1_StageOrder ==
    /\ IsPrefix(StagesRun, Stages)
    /\ \A k \in 1 .. Len(Stages) - 1 :
           Ran(Stages[k + 1]) => Succeeded(Stages[k])
    /\ Ran("apply") => Succeeded("validate")

\* C2: a stage whose command did not succeed ends the run at once with the
\* category of that stage, and no later stage is run.
C2_FailureEndsRun ==
    \A k \in 1 .. Len(Stages) :
        (Ran(Stages[k]) /\ ~Succeeded(Stages[k])) =>
            /\ pc = "returned"
            /\ ~pass
            /\ failure_category = Category(Stages[k])
            /\ \A j \in k + 1 .. Len(Stages) : ~Ran(Stages[j])

\* C3: a returned result has a failure category of the category set when
\* pass is false and none when pass is true.
C3_OneCategory ==
    pc = "returned" =>
        IF pass
        THEN failure_category = NoCategory
        ELSE failure_category \in FAILURE_CATEGORIES

C3_Witness ==
    /\ pc = "returned"
    /\ ~pass
    /\ failure_category = "IDEMPOTENCY"
    /\ "apply_2" \in DOMAIN timings

\* C4: a result with pass = true means every stage, the second plan and
\* destroy included, was run and succeeded.
C4_PassMeansAllSucceeded ==
    (pc = "returned" /\ pass) =>
        \A k \in 1 .. Len(Stages) : Succeeded(Stages[k])

\* C5: after passing checks, the run ends with IDEMPOTENCY exactly when the
\* output of the second plan lacks the zero-change marker, and goes on to
\* destroy whenever the marker is there.
C5_IdempotencyIffNoMarker ==
    RanLast("plan_2") =>
        /\ (pc = "returned" /\ failure_category = "IDEMPOTENCY")
               <=> ~HasMarker(output)
        /\ HasMarker(output) => pc = "destroy"

\* C6: a second plan that did not succeed ends the run with IDEMPOTENCY, and
\* destroy is not run.
C6_FailedPlanIsIdempotencyFailure ==
    (Ran("plan_2") /\ ~Succeeded("plan_2")) =>
        /\ pc = "returned"
        /\ failure_category = "IDEMPOTENCY"
        /\ ~Ran("destroy")

\* C7: when the checks fail, by a failing result or by an exception, the run
\* ends with CHECKS and neither the second plan nor destroy is ever run, so
\* what apply created stays.
C7_ChecksFailureSkipsDestroy ==
    (Ran("checks") /\ ~Succeeded("checks")) =>
        /\ pc = "returned"
        /\ ~pass
        /\ failure_category = "CHECKS"
        /\ Succeeded("apply")
        /\ ~Ran("plan_2")
        /\ ~Ran("destroy")

C7_Witness ==
    /\ pc = "returned"
    /\ failure_category = "CHECKS"
    /\ check_result = {[pass |-> FALSE]}
    /\ outputsRead = "own"

\* C8: a destroy that fails after apply, checks and the second plan succeeded
\* gives pass = false with category DESTROY, and leaves every earlier exit
\* code (all 0), every earlier timing and the check result as recorded.
C8_DestroyFailureKeepsRecord ==
    [][(/\ pc = "destroy"
        /\ Succeeded("plan_2")
        /\ pc' = "returned"
        /\ ~success')
       =>
       (/\ pass' = FALSE
        /\ failure_category' = "DESTROY"
        /\ \A s \in DOMAIN tool_exit_codes :
               tool_exit_codes'[s] = tool_exit_codes[s] /\ tool_exit_codes[s] = 0
        /\ \A s \in DOMAIN timings :
               s \in DOMAIN timings' /\ timings'[s] = timings[s]
        /\ \A k \in 1 .. Len(Stages) - 1 : Succeeded(Stages[k])'
        /\ check_result' = check_result)]_vars

C8_Witness ==
    /\ pc = "returned"
    /\ failure_category = "DESTROY"
    /\ Succeeded("plan_2")
    /\ tool_exit_codes["destroy"] = None

\* C9: when check_localstack reports the emulator unreachable, the run fails
\* at once with LOCALSTACK: no command is run and timings, tool_exit_codes
\* and logs stay empty.
C9_EmulatorDown ==
    (pc # "start" /\ ~check_localstack(health)) =>
        /\ pc = "returned"
        /\ ~pass
        /\ failure_category = "LOCALSTACK"
        /\ executed = <<>>
        /\ DOMAIN timings = {}
        /\ DOMAIN tool_exit_codes = {}
        /\ DOMAIN logs = {}
        /\ logFiles = {}

C9_Witness ==
    /\ pc = "returned"
    /\ health = "exception"
    /\ failure_category = "LOCALSTACK"

\* C10: no retries: a step that is reached runs its command exactly once
\* then, and no command is ever run a second time.
C10_NoRetries ==
    [][/\ IF pc \in Steps
          THEN executed' = Append(executed, pc)
          ELSE executed' = executed
       /\ pc' \in Steps =>
              \A i \in 1 .. Len(executed') : executed'[i] # pc']_vars

C10_Witness ==
    /\ pc = "returned"
    /\ executed = SubSeq(StepOrder, 1, 6)
    /\ failure_category = "APPLY"
    /\ tool_exit_codes["apply"] = None

\* The failure taxonomy as the design lists it.
DesignTaxonomy ==
    {"SYNTAX", "INIT", "VALIDATE", "PLAN", "APPLY",
     "CHECKS", "IDEMPOTENCY", "DESTROY", "PRECONDITION"}

\* C11 as stated: the failure category is always one of SYNTAX, INIT,
\* VALIDATE, PLAN, APPLY, CHECKS, IDEMPOTENCY, DESTROY, PRECONDITION.
C11_DesignTaxonomy ==
    failure_category \in DesignTaxonomy \cup {NoCategory}

\* C11 as amended: the failure category is always one of FAILURE_CATEGORIES
\* (SYNTAX, INIT, VALIDATE, PLAN, APPLY, CHECKS, IDEMPOTENCY, DESTROY,
\* LOCALSTACK); no other value is ever stored.
C11_CodeTaxonomy ==
    failure_category \in FAILURE_CATEGORIES \cup {NoCategory}

C11_Witness ==
    /\ pc = "returned"
    /\ health = "503"
    /\ failure_category = "LOCALSTACK"
    /\ failure_category \notin DesignTaxonomy

\* C12: a timeout or an exception of a stage's command comes back from
\* _run_terraform as (false, message, None) with the log file written, and
\* the run ends with a null exit code for the stage and the stage's category.
C12_ProcessFailureFolded ==
    \A k \in 1 .. Len(Stages) :
        LET s == Stages[k] IN
        (s # "checks" /\ Ran(s) /\ tool_exit_codes[s] = None) =>
            /\ s \in logFiles
            /\ RanLast(s) => (~success /\ exit_code = None)
            /\ pc = "returned"
            /\ failure_category = Category(s)

\* C13: every step that was run, the output command and the checks included,
\* has its log file, a timing entry and an exit-code entry.
C13_EveryStepRecorded ==
    \A s \in Steps :
        Ran(s) =>
            /\ s \in logFiles
            /\ s \in DOMAIN timings
            /\ s \in DOMAIN tool_exit_codes

----------------------------------------------------------------------------
(* Properties of TerraformGenerator.generate *)

\* the canonical files
Canonical == {"main.tf", "variables.tf", "outputs.tf"}

\* the content is marked as a placeholder: it records that generation failed
MarkedPlaceholder(content) ==
    \E k \in 1 .. Len(content) :
        content[k] = Comment("# Code generation failed - placeholder file")

\* the content points to the raw response saved for the task
PointsToRawResponse(content, task) ==
    /\ RawResponseFile(task) \in debug_files
    /\ \E k \in 1 .. Len(content) :
           content[k] = Comment("# Check " \o PathText(RawResponseFile(task))
                                  \o " for raw LLM response")

\* C23: whatever the response, generate returns a mapping that contains
\* main.tf, variables.tf and outputs.tf, and every canonical file that was
\* not recovered (none of the strategies found it, or generate rejected what
\* they found) is a placeholder whose content records that generation failed
\* and points to the raw response that was saved.
C23_PlaceholdersForMissing ==
    gpc = "returned" =>
        /\ Canonical \subseteq DOMAIN files
        /\ \A f \in Canonical :
               (f \notin DOMAIN extracted \/ files[f] # extracted[f]) =>
                   /\ MarkedPlaceholder(files[f])
                   /\ PointsToRawResponse(files[f], gen_task)

\* generate has returned with one canonical file recovered and another one
\* replaced by its placeholder
C23_Witness ==
    /\ gpc = "returned"
    /\ "main.tf" \in DOMAIN extracted
    /\ files["main.tf"] = extracted["main.tf"]
    /\ "outputs.tf" \notin DOMAIN extracted
    /\ MarkedPlaceholder(files["outputs.tf"])

\* the fenced blocks of the response, as method 1 matches them
FencedBlocks == Pattern1(response, 1)

\* the response has three fenced blocks with explicit and distinct file
\* names, and nothing but prose around them
ThreeNamedBlocks ==
    /\ Len(FencedBlocks) = 3
    /\ \A i \in 1 .. 3 : FencedBlocks[i].name # NoName
    /\ \A i, j \in 1 .. 3 : i # j => FencedBlocks[i].name # FencedBlocks[j].name
    /\ \A k \in 1 .. Len(response) : response[k].kind \notin {"bold", "head"}

\* C24: for a response with three distinct fenced blocks with explicit file
\* names, generate returns exactly those three entries, each with the
\* trimmed body of its block, whatever the names and the lengths.
C24_ThreeBlocksReturned ==
    gpc = "returned" /\ ThreeNamedBlocks =>
        /\ DOMAIN files = {FencedBlocks[i].name : i \in 1 .. 3}
        /\ \A i \in 1 .. 3 : files[FencedBlocks[i].name] = FencedBlocks[i].code

\* C25: in the mapping generate returns, a canonical file shorter than
\* MinLength characters is a marked placeholder.
C25_NoShortCanonicalFile ==
    gpc = "returned" =>
        \A f \in Canonical \cap DOMAIN files :
            Length(files[f]) < MinLength => MarkedPlaceholder(files[f])

\* generate has returned after a strategy recovered a canonical file shorter
\* than MinLength characters
C25_Witness ==
    /\ gpc = "returned"
    /\ \E f \in Canonical \cap DOMAIN extracted : Length(extracted[f]) < MinLength

\* C26: the first successful insertion for a file name wins: no later match
\* for the same file name, in the same strategy or in a later one, puts
\* other content in its place.
C26_FirstInsertionWins ==
    \A i, j \in 1 .. Len(inserted) :
        i < j /\ inserted[i].name = inserted[j].name =>
            inserted[j].code = inserted[i].code

\* C27: the extras are preserved: every file that is not canonical and was
\* recovered by an extraction strategy is in the mapping generate returns,
\* with the content recovered.
C27_ExtrasPreserved ==
    gpc = "returned" =>
        \A f \in DOMAIN extracted \ Canonical :
            f \in DOMAIN files /\ files[f] = extracted[f]

\* the files recovered when the strategy was reached
RecoveredBefore(strategy) == attempts[strategy].before

\* C28: a later strategy of extract_code_blocks is attempted if and only if
\* fewer than three distinct canonical files were recovered by the
\* strategies before it.
C28_AttemptedWhileCanonicalMissing ==
    gpc = "fallback" =>
        \A k \in 2 .. Len(Strategies) :
            attempts[Strategies[k]].ran
                <=> Cardinality(RecoveredBefore(Strategies[k]) \cap Canonical) < 3

\* the content is only a heading or only comment lines
OnlyToken(content) ==
    /\ Strip(content) # <<>>
    /\ \A k \in 1 .. Len(content) :
           content[k].kind \in {"bold", "head", "comment", "empty"}

\* C29: generate discards a recovered file if and only if its content is
\* shorter than MinLength or is only a heading or placeholder token; a file
\* of at least MinLength characters of code, which may begin with a '#'
\* comment line, is kept.
C29_DiscardedIffShortOrToken ==
    gpc = "final" =>
        \A f \in DOMAIN extracted :
            f \notin DOMAIN files
                <=> (Length(extracted[f]) < MinLength \/ OnlyToken(extracted[f]))

\* the fenced blocks of the response that carry no file name
UnnamedBlocks ==
    {FencedBlocks[i] : i \in {k \in 1 .. Len(FencedBlocks) :
                                 FencedBlocks[k].name = NoName}}

\* the file names method 1 assigned before it reached the block m
AssignedBefore(m) ==
    {inserted[i].name : i \in {k \in 1 .. Len(inserted) :
                                  /\ inserted[k].strategy = "method1"
                                  /\ inserted[k].at < m.at}}

\* method 1 stored the block m as main.tf
StoredAsMain(m) ==
    \E i \in 1 .. Len(inserted) :
        inserted[i] = Insertion("method1", m, "main.tf", m.code)

\* method 1 has run
Method1Done == gpc \notin {"idle", "start", "method1"}

\* C30 as claimed: in strategy 1 a fenced block without a file name is stored
\* as main.tf whenever main.tf has not been assigned yet, and never when
\* main.tf was already assigned.
C30_MainWheneverUnassigned ==
    Method1Done =>
        \A m \in UnnamedBlocks :
            StoredAsMain(m) <=> "main.tf" \notin AssignedBefore(m)

\* C30 as the code has it: in strategy 1 a fenced block without a file name
\* is stored as main.tf if and only if its body is not empty and no file at
\* all has been assigned yet; so it never overwrites a main.tf already
\* assigned.
C30_MainOnlyIfNoFileAssigned ==
    Method1Done =>
        \A m \in UnnamedBlocks :
            /\ StoredAsMain(m) <=> (m.code # <<>> /\ AssignedBefore(m) = {})
            /\ StoredAsMain(m) => "main.tf" \notin AssignedBefore(m)

\* method 1 has run over a response with two blocks without a file name: the
\* first was stored as main.tf, the second was not
C30_Witness ==
    /\ gpc = "method2"
    /\ \E m, n \in UnnamedBlocks :
           /\ AssignedBefore(m) = {}
           /\ StoredAsMain(m)
           /\ AssignedBefore(n) = {"main.tf"}
           /\ ~StoredAsMain(n)

----------------------------------------------------------------------------
(* Further properties of TaskRunner.run *)

\* C31: the outputs document run_checks reads is the one this run's own
\* output command captured: checks never read an outputs.json that an
\* earlier run left in the work_dir.
C31_OwnOutputsOnly == outputsRead # "stale"

\* C38: every path stored in result['logs'] names a log file this run wrote
\* through _run_terraform, and every key of tool_exit_codes names a command
\* this run executed.
C38_LogsAndExitCodesOfRunCommands ==
    /\ \A k \in DOMAIN logs : logs[k] \in logFiles
    /\ \A k \in DOMAIN tool_exit_codes : Ran(k)

\* C39: every result run returns carries a total duration: timings has the
\* key 'total' on every return path.
C39_TotalOnEveryReturn == pc = "returned" => "total" \in DOMAIN timings

\* Every command returns or hits its timeout, and run goes on to its next
\* statement: the steps of run are taken as long as one is enabled.
SpecFair == Init /\ [][Next]_vars /\ WF_vars(Next)

\* the timeout the steps of run pass to _run_terraform
TimeoutOf(step_name) ==
    StepTimeout(step_name, IF step_name = "plan_2" THEN 120 ELSE None)

----------------------------------------------------------------------------
(* Further properties of run_checks *)

RouteTablesReply == replies["rt.describe_route_tables"]

\* C37: the route table checker records
\* all_subnets_associated_with_route_tables as true, and raises no
\* association error, only if every subnet id of the outputs is associated
\* with some route table of the VPC.
C37_EverySubnetAssociated ==
    (/\ task_id = "task_vpc_multiple_route_tables"
     /\ "rt.describe_route_tables" \in DOMAIN replies
     /\ RouteTablesReply.kind = "ok"
     /\ "all_subnets_associated_with_route_tables" \in DOMAIN wiring) =>
        \A subnet_id \in Range(details["subnet_ids"]) :
            \E i \in 1 .. Len(RouteTablesReply.data) :
                subnet_id \in RouteTablesReply.data[i]

----------------------------------------------------------------------------
(* Properties of run_single_benchmark *)

\* the result run_single_benchmark wrote and returned
Returned == bpc = "returned"

\* result["steps"]["terraform"]["failure_category"] is a failure category
HasCategory(r) ==
    /\ "terraform" \in DOMAIN r["steps"]
    /\ r["steps"]["terraform"].failure_category \in FAILURE_CATEGORIES

\* C32: every result run_single_benchmark returns with overall_pass = false
\* carries a failure category in steps.terraform.failure_category, also when
\* the failure is an exception raised by generation, by the construction of
\* the TaskRunner or inside the pipeline.
C32_FailedResultHasCategory ==
    (Returned /\ result["overall_pass"] = FALSE) => HasCategory(result)

\* steps["generation"] has been recorded as successful
GenerationRecorded(r) ==
    /\ "steps" \in DOMAIN r
    /\ "generation" \in DOMAIN r["steps"]
    /\ r["steps"]["generation"].success

\* C33: once steps["generation"] has been recorded as successful, no later
\* step of run_single_benchmark modifies or replaces that record.
C33_GenerationRecordKept ==
    [][GenerationRecorded(result) =>
          /\ GenerationRecorded(result')
          /\ result'["steps"]["generation"] = result["steps"]["generation"]]_vars

\* runner.run() returned pass = true
RunPassed == terraform_result # EmptyDict /\ terraform_result.pass

\* exactly one benchmark_result.json was written, under
\* results_dir/model_name/task_id/run_id, with overall_pass set
OneResultFile ==
    /\ Len(written) = 1
    /\ written[1].file = <<"results", result["model_name"], result["task_id"],
                           result["run_id"], "benchmark_result.json">>
    /\ written[1].result = result
    /\ "overall_pass" \in DOMAIN written[1].result
    /\ written[1].result["overall_pass"] \in BOOLEAN

----------------------------------------------------------------------------
(* Properties of the result collection of run_benchmark_suite *)

\* the entries of the results list that belong to the job of future f
EntriesFor(f) ==
    {i \in 1 .. Len(suite_results) :
        /\ suite_results[i].provider = future_to_job[f].provider
        /\ suite_results[i].model = future_to_job[f].model
        /\ suite_results[i].task_id = future_to_job[f].task_id}

\* C35: the results list run_benchmark_suite returns has exactly one entry
\* for each submitted (model, task) job, as many entries as jobs, whatever the
\* order in which the jobs completed and whichever of them raised; the entry
\* of a job that raised has overall_pass = false.
C35_OneEntryPerJob ==
    kpc = "returned" =>
        /\ Len(suite_results) = Len(future_to_job)
        /\ \A f \in DOMAIN future_to_job :
             /\ Cardinality(EntriesFor(f)) = 1
             /\ futures[f].outcome = "raised" =>
                    \A i \in EntriesFor(f) : ~suite_results[i].overall_pass

\* a suite of four jobs returned; the last submitted job completed first and
\* raised, and another job passed
C35_Witness ==
    /\ kpc = "returned"
    /\ Len(future_to_job) = 4
    /\ futures[4].outcome = "raised"
    /\ suite_results[1].task_id = future_to_job[4].task_id
    /\ suite_results[1].model = future_to_job[4].model
    /\ \E i \in 2 .. 4 : suite_results[i].overall_pass

============================================================================
